---------------------------- MODULE Spec2Model ----------------------------
(***************************************************************************)
(* Model of the markdown-inline-preview VS Code extension: the Decorator   *)
(* (src/src/decorator.ts), its link provider                               *)
(* (src/src/documentLinkProvider.ts) and the event wiring of activate()    *)
(* (src/src/extension.ts).                                                 *)
(*                                                                         *)
(* A document text is a sequence of one-character strings.  Offsets are    *)
(* 0-based as in JavaScript: the character at offset k is t[k + 1].        *)
(***************************************************************************)
EXTENDS Integers, Sequences, FiniteSets, TLC

(***************************************************************************)
(* Character classes used by the regular expressions.                      *)
(***************************************************************************)
NL == "\n"
TAB == "\t"
EOF == ""
\* the backtick character U+0060, which a TLA+ string literal cannot hold
BQ == "BQ"

\* \s restricted to the characters documents of the model contain
WhiteSpace == {" ", TAB, NL}
\* [ \t]
Blank == {" ", TAB}
\* [a-z] under the i flag
Letters == {"a", "b", "c", "d", "e", "g", "h", "i", "l", "m", "n", "o", "p",
            "r", "t", "x", "y", "A", "R", "S"}
Digits == {"5"}
\* \w
WordChars == Letters \cup Digits \cup {"_"}
\* [a-z0-9+.-]
SchemeChars == Letters \cup Digits \cup {"+", ".", "-"}

At(t, k) == IF k >= 0 /\ k < Len(t) THEN t[k + 1] ELSE EOF

\* t.substring(a, b)
Sub(t, a, b) == SubSeq(t, a + 1, b)

\* whether the characters of s occur in t at offset k
Looking(t, k, s) == /\ k >= 0
                    /\ k + Len(s) <= Len(t)
                    /\ \A j \in 1..Len(s) : t[k + j] = s[j]

\* offset of the first character at or after k that is not in class
RECURSIVE SkipClass(_, _, _)
SkipClass(t, k, class) ==
    IF k < Len(t) /\ t[k + 1] \in class THEN SkipClass(t, k + 1, class) ELSE k

\* offset of the first character at or after k that is in class, or Len(t)
RECURSIVE SkipTo(_, _, _)
SkipTo(t, k, class) ==
    IF k < Len(t) /\ t[k + 1] \notin class THEN SkipTo(t, k + 1, class) ELSE k

\* $ under the m flag: end of input or before a line terminator
AtLineEnd(t, k) == k = Len(t) \/ At(t, k) = NL

\* ^ under the m flag: start of input or after a line terminator
AtLineStart(t, k) == k = 0 \/ At(t, k - 1) = NL

(***************************************************************************)
(* The regular expressions (decorator.ts 238-250).  Each is a record that  *)
(* names its shape and carries the parts in which patterns of one shape    *)
(* differ; MatchAt gives the match the backtracking matcher finds at one   *)
(* start offset.  A match is [index, end, g] with g the lengths of the     *)
(* capture groups the code reads; NoMatch when there is none.              *)
(***************************************************************************)
NoMatch == [index |-> -1, end |-> -1, g |-> <<>>]

\* decorator.ts 238: two stars or two underscores, content that starts and
\* ends with a character outside [\s*_] (lazy, within one line), the same
\* marker again
BOLD_REGEX ==
    [name |-> "BOLD", shape |-> "symmetric",
     markers |-> {<<"*", "*">>, <<"_", "_">>},
     edge |-> WhiteSpace \cup {"*", "_"}, notAdjacent |-> {}]

\* the italic pattern without its lookbehind and lookahead
ITALIC_WITHOUT_LOOKAROUND_REGEX ==
    [name |-> "ITALIC", shape |-> "symmetric",
     markers |-> {<<"*">>, <<"_">>},
     edge |-> WhiteSpace \cup {"*", "_"}, notAdjacent |-> {}]

\* decorator.ts 239: as bold with a one-character marker that has no star or
\* underscore before the opening or after the closing marker
ITALIC_REGEX ==
    [name |-> "ITALIC", shape |-> "symmetric",
     markers |-> {<<"*">>, <<"_">>},
     edge |-> WhiteSpace \cup {"*", "_"}, notAdjacent |-> {"*", "_"}]

\* decorator.ts 240: two tildes, content, two tildes, no tilde on either side
STRIKETHROUGH_REGEX ==
    [name |-> "STRIKETHROUGH", shape |-> "symmetric",
     markers |-> {<<"~", "~">>},
     edge |-> WhiteSpace \cup {"~"}, notAdjacent |-> {"~"}]

\* decorator.ts 241: backtick, content, backtick
INLINE_CODE_REGEX ==
    [name |-> "INLINE_CODE", shape |-> "symmetric",
     markers |-> {<<BQ>>},
     edge |-> WhiteSpace \cup {BQ}, notAdjacent |-> {}]

\* decorator.ts 242: an opening fence of three backticks or tildes, word
\* characters and a newline; whole lines, lazily; the same fence and a newline
BLOCK_CODE_REGEX ==
    [name |-> "BLOCK_CODE", shape |-> "block",
     fences |-> {<<BQ, BQ, BQ>>, <<"~", "~", "~">>}]

\* decorator.ts 243: <scheme:rest>
SIMPLE_URI_REGEX == [name |-> "SIMPLE_URI", shape |-> "simpleURI"]

\* decorator.ts 244: [text](scheme:rest)
ALIASED_URI_REGEX == [name |-> "ALIASED_URI", shape |-> "aliasedURI"]

\* decorator.ts 245: [text][ref] with at most one whitespace character between
\* the bracket groups
REFERENCE_URI_REGEX == [name |-> "REFERENCE_URI", shape |-> "referenceURI"]

\* decorator.ts 246: line start, blanks, 1 to 6 hashes, then a blank and the
\* rest of the line, or the end of the line
ALL_HEADINGS_REGEX ==
    [name |-> "ALL_HEADINGS", shape |-> "heading", min |-> 1, max |-> 6]

\* decorator.ts 247
H1_REGEX == [name |-> "H1", shape |-> "heading", min |-> 1, max |-> 1]

\* decorator.ts 248
H2_REGEX == [name |-> "H2", shape |-> "heading", min |-> 2, max |-> 2]

\* a pattern for three hashes or more
H3_OR_MORE_REGEX == [name |-> "H3", shape |-> "heading", min |-> 3, max |-> 6]

\* decorator.ts 249
H3_REGEX == [name |-> "H3", shape |-> "heading", min |-> 3, max |-> 3]

\* decorator.ts 250: a newline, a blank line, then blanks, three or more of one
\* rule character, blanks; followed (lookahead) by a newline and a blank line
HORIZONTAL_LINE_REGEX ==
    [name |-> "HORIZONTAL_LINE", shape |-> "horizontalLine",
     rule |-> {"-", "*", "_"}, min |-> 3]

\* the regex objects that live at module level and are shared by all scans
SharedRegexNames ==
    {"BOLD", "ITALIC", "STRIKETHROUGH", "INLINE_CODE", "BLOCK_CODE",
     "SIMPLE_URI", "ALIASED_URI", "REFERENCE_URI", "ALL_HEADINGS",
     "H1", "H2", "H3", "HORIZONTAL_LINE"}

(***************************************************************************)
(* The match of each shape at start offset i.  The patterns leave the      *)
(* backtracking matcher one choice only, the length of the lazy part, and  *)
(* it takes the shortest that lets the rest of the pattern match.          *)
(***************************************************************************)

\* the lazy content of a symmetric pattern: the offset q of its last
\* character, the first q at or after from such that the closing marker and
\* the lookahead match behind it; -1 when a line break comes first
RECURSIVE SymmetricClose(_, _, _, _)
SymmetricClose(re, t, q, m) ==
    IF q >= Len(t) THEN -1
    ELSE IF /\ At(t, q) \notin re.edge
            /\ Looking(t, q + 1, m)
            /\ At(t, q + 1 + Len(m)) \notin re.notAdjacent
         THEN q
    ELSE IF At(t, q) = NL THEN -1
    ELSE SymmetricClose(re, t, q + 1, m)

SymmetricMatchAt(re, t, i) ==
    LET ms == {m \in re.markers : Looking(t, i, m)}
        Closed(m, p, q) ==
            IF q < 0 THEN NoMatch
            ELSE [index |-> i, end |-> q + 1 + Len(m),
                  g |-> <<Len(m), q + 1 - p, Len(m)>>]
        Opened(m, p) ==
            IF p >= Len(t) \/ At(t, p) \in re.edge THEN NoMatch
            ELSE Closed(m, p, SymmetricClose(re, t, p, m))
        Marker(m) == Opened(m, i + Len(m))
    IN IF ms = {} \/ At(t, i - 1) \in re.notAdjacent THEN NoMatch
       ELSE Marker(CHOOSE x \in ms : TRUE)

\* the lazy body of a fenced block that starts a line at offset b: [close,
\* last] with close the offset of the closing fence and last the offset of
\* the last body line (-1 when the body is empty); close = -1 when no line
\* from b on is the fence followed by a newline
RECURSIVE BlockClose(_, _, _, _)
BlockClose(t, b, f, last) ==
    IF Looking(t, b, f) /\ At(t, b + Len(f)) = NL
    THEN [close |-> b, last |-> last]
    ELSE LET e == SkipTo(t, b, {NL}) IN
         IF e >= Len(t) THEN [close |-> -1, last |-> last]
         ELSE BlockClose(t, e + 1, f, b)

BlockMatchAt(re, t, i) ==
    LET fs == {f \in re.fences : Looking(t, i, f)}
        Closed(f, w, c) ==
            IF c.close < 0 THEN NoMatch
            ELSE [index |-> i, end |-> c.close + Len(f) + 1,
                  g |-> <<w + 1 - i, Len(f),
                          IF c.last < 0 THEN 0 ELSE c.close - c.last,
                          Len(f) + 1>>]
        Opened(f, w) ==
            IF At(t, w) # NL THEN NoMatch
            ELSE Closed(f, w, BlockClose(t, w + 1, f, -1))
        Fence(f) == Opened(f, SkipClass(t, i + Len(f), WordChars))
    IN IF fs = {} THEN NoMatch ELSE Fence(CHOOSE x \in fs : TRUE)

\* scheme:rest from offset s on, rest ending before a character of stop:
\* the offset behind rest, or -1
SchemeAndRest(t, s, stop) ==
    LET Rest(c, r) == IF r > c + 1 THEN r ELSE -1
        Scheme(c) == IF At(t, c) # ":" THEN -1
                     ELSE Rest(c, SkipTo(t, c + 1, WhiteSpace \cup stop))
    IN IF At(t, s) \notin Letters THEN -1
       ELSE Scheme(SkipClass(t, s + 1, SchemeChars))

SimpleURIMatchAt(t, i) ==
    LET URI(r) == IF r < 0 \/ At(t, r) # ">" THEN NoMatch
                  ELSE [index |-> i, end |-> r + 1,
                        g |-> <<1, r - (i + 1), 1>>]
    IN IF At(t, i) # "<" THEN NoMatch
       ELSE URI(SchemeAndRest(t, i + 1, {"<", ">"}))

AliasedURIMatchAt(t, i) ==
    LET URI(e, r) == IF r < 0 \/ At(t, r) # ")" THEN NoMatch
                     ELSE [index |-> i, end |-> r + 1,
                           g |-> <<1, e - (i + 1), 2, r - (e + 2), 1>>]
        Text(e) == IF e = i + 1 \/ ~Looking(t, e, <<"]", "(">>) THEN NoMatch
                   ELSE URI(e, SchemeAndRest(t, e + 2, {")"}))
    IN IF At(t, i) # "[" THEN NoMatch
       ELSE Text(SkipTo(t, i + 1, {"]"}))

ReferenceURIMatchAt(t, i) ==
    LET Ref(e, sp, o, e2) ==
            IF At(t, o) # "[" \/ e2 = o + 1 \/ At(t, e2) # "]"
            THEN NoMatch
            ELSE [index |-> i, end |-> e2 + 1,
                  g |-> <<1, e - (i + 1), 1, sp, 1, e2 - (o + 1), 1>>]
        Space(e, sp) == Ref(e, sp, e + 1 + sp, SkipTo(t, e + 2 + sp, {"]"}))
        Text(e) == IF e = i + 1 \/ At(t, e) # "]" THEN NoMatch
                   ELSE Space(e, IF At(t, e + 1) \in WhiteSpace THEN 1 ELSE 0)
    IN IF At(t, i) # "[" THEN NoMatch
       ELSE Text(SkipTo(t, i + 1, {"]"}))

HeadingMatchAt(re, t, i) ==
    LET Rest(k, e) == [index |-> i, end |-> e, g |-> <<e - k>>]
        Hashes(h, k) ==
            IF k - h < re.min \/ k - h > re.max THEN NoMatch
            ELSE IF At(t, k) \in Blank THEN Rest(k, SkipTo(t, k, {NL}))
            ELSE IF AtLineEnd(t, k)
                 THEN [index |-> i, end |-> k, g |-> <<0>>]
            ELSE NoMatch
        Indent(h) == Hashes(h, SkipClass(t, h, {"#"}))
    IN IF ~AtLineStart(t, i) THEN NoMatch
       ELSE Indent(SkipClass(t, i, Blank))

HorizontalLineMatchAt(re, t, i) ==
    LET Rule(b, l, r, e) ==
            IF \/ At(t, l) \notin re.rule
               \/ r - l < re.min
               \/ At(t, e) # NL
               \/ At(t, SkipClass(t, e + 1, Blank)) # NL
            THEN NoMatch
            ELSE [index |-> i, end |-> e,
                  g |-> <<l - (b + 1), r - l, e - r>>]
        Run(b, l, r) == Rule(b, l, r, SkipClass(t, r, Blank))
        Lead(b, l) == Run(b, l, SkipClass(t, l, {At(t, l)}))
        BlankLine(b) == IF At(t, b) # NL THEN NoMatch
                        ELSE Lead(b, SkipClass(t, b + 1, Blank))
    IN IF At(t, i) # NL THEN NoMatch
       ELSE BlankLine(SkipClass(t, i + 1, Blank))

MatchAt(re, t, i) ==
    CASE re.shape = "symmetric" -> SymmetricMatchAt(re, t, i)
      [] re.shape = "block" -> BlockMatchAt(re, t, i)
      [] re.shape = "simpleURI" -> SimpleURIMatchAt(t, i)
      [] re.shape = "aliasedURI" -> AliasedURIMatchAt(t, i)
      [] re.shape = "referenceURI" -> ReferenceURIMatchAt(t, i)
      [] re.shape = "heading" -> HeadingMatchAt(re, t, i)
      [] re.shape = "horizontalLine" -> HorizontalLineMatchAt(re, t, i)

\* exec of a regex without the g flag: lastIndex is not read, the search
\* starts at offset 0 whatever from is
RECURSIVE firstMatchFrom(_, _, _)
firstMatchFrom(re, t, k) ==
    IF k > Len(t) THEN NoMatch
    ELSE LET Try(m) == IF m # NoMatch THEN m ELSE firstMatchFrom(re, t, k + 1)
         IN Try(MatchAt(re, t, k))

execNotGlobal(re, t, from) == firstMatchFrom(re, t, 0)

\* RegExp.prototype.exec of a global regex whose lastIndex is from: the match
\* at the first start offset at or after from that has one
RECURSIVE exec(_, _, _)
exec(re, t, from) ==
    IF from > Len(t) THEN NoMatch
    ELSE LET Try(m) == IF m # NoMatch THEN m ELSE exec(re, t, from + 1) IN
         Try(MatchAt(re, t, from))

\* the loop  while ((match = regex.exec(documentText)))  entered with
\* regex.lastIndex = from: the matches in order.  Each exec leaves lastIndex
\* at the end of its match; the failing exec that ends the loop resets it to 0
RECURSIVE execLoop(_, _, _)
execLoop(re, t, from) ==
    LET Loop(match) == IF match = NoMatch THEN <<>>
                       ELSE <<match>> \o execLoop(re, t, match.end)
    IN Loop(exec(re, t, from))

\* the lastIndex a scan loop would leave if its last exec were the one that
\* found the last match
lastIndexAfterLastMatch(re, t, from) ==
    LET Last(ms) == IF ms = <<>> THEN from ELSE ms[Len(ms)].end IN
    Last(execLoop(re, t, from))

\* the lastIndex a single exec leaves, as if the scan stopped at its first
\* match
lastIndexAfterFirstExec(re, t, from) ==
    LET Left(match) == IF match = NoMatch THEN 0 ELSE match.end IN
    Left(exec(re, t, from))

\* regex.lastIndex when the loop  while ((match = regex.exec(documentText)))
\* entered with lastIndex = from has ended: each exec that matches sets it to
\* the end of the match, the exec that fails sets it to 0
RECURSIVE lastIndexAfterLoop(_, _, _)
lastIndexAfterLoop(re, t, from) ==
    LET Loop(match) == IF match = NoMatch THEN 0
                       ELSE lastIndexAfterLoop(re, t, match.end)
    IN Loop(exec(re, t, from))

\* the shared regex object of each name
RegexOf(name) ==
    CASE name = "BOLD" -> BOLD_REGEX
      [] name = "ITALIC" -> ITALIC_REGEX
      [] name = "STRIKETHROUGH" -> STRIKETHROUGH_REGEX
      [] name = "INLINE_CODE" -> INLINE_CODE_REGEX
      [] name = "BLOCK_CODE" -> BLOCK_CODE_REGEX
      [] name = "SIMPLE_URI" -> SIMPLE_URI_REGEX
      [] name = "ALIASED_URI" -> ALIASED_URI_REGEX
      [] name = "REFERENCE_URI" -> REFERENCE_URI_REGEX
      [] name = "ALL_HEADINGS" -> ALL_HEADINGS_REGEX
      [] name = "H1" -> H1_REGEX
      [] name = "H2" -> H2_REGEX
      [] name = "H3" -> H3_REGEX
      [] name = "HORIZONTAL_LINE" -> HORIZONTAL_LINE_REGEX

(***************************************************************************)
(* Positions and ranges of the editor API, as the Decorator uses them.     *)
(***************************************************************************)
RECURSIVE CountNL(_, _)
\* the number of line breaks before offset k
CountNL(t, k) == IF k <= 0 THEN 0
                 ELSE (IF t[k] = NL THEN 1 ELSE 0) + CountNL(t, k - 1)

RECURSIVE LineStartOf(_, _)
\* the offset at which the line holding offset k starts
LineStartOf(t, k) == IF k <= 0 \/ t[k] = NL THEN k ELSE LineStartOf(t, k - 1)

Clamp(t, k) == IF k < 0 THEN 0 ELSE IF k > Len(t) THEN Len(t) ELSE k

\* TextDocument.positionAt
positionAt(t, offset) ==
    LET k == Clamp(t, offset) IN
    [line |-> CountNL(t, k), character |-> k - LineStartOf(t, k)]

\* TextDocument.lineCount
lineCount(t) == CountNL(t, Len(t)) + 1

isBeforeOrEqual(a, b) ==
    a.line < b.line \/ (a.line = b.line /\ a.character <= b.character)

\* new Range(start, end)
Range(a, b) == IF isBeforeOrEqual(a, b) THEN [start |-> a, end |-> b]
               ELSE [start |-> b, end |-> a]

\* Range.intersection(otherRange) is defined: the two ranges overlap or touch
intersects(r, other) ==
    isBeforeOrEqual(r.start, other.end) /\ isBeforeOrEqual(other.start, r.end)

\* Range.contains(otherRange)
contains(r, other) ==
    isBeforeOrEqual(r.start, other.start) /\ isBeforeOrEqual(other.end, r.end)

(***************************************************************************)
(* The Decorator.  Its methods read this.activeEditor; here they take it   *)
(* as the parameter ed: an editor [id, languageId, text, selections], or   *)
(* undefined.  A selection is given by the lines of its start and end,     *)
(* the only part of it the Decorator reads.                                *)
(***************************************************************************)
undefined == [id |-> "undefined", languageId |-> "", text |-> <<>>,
              selections |-> {}]

hideDecorationType == "Hide"
defaultColorDecorationType == "DefaultColor"
xxlTextDecorationType == "XXL"
xlTextDecorationType == "XL"
lTextDecorationType == "L"
URIDecorationType == "URIStyle"
spaceAfterDecorationType == "SpaceAfter"
horizontalLineDecorationType == "HorizontalLine"

DecorationKinds ==
    {hideDecorationType, defaultColorDecorationType, xxlTextDecorationType,
     xlTextDecorationType, lTextDecorationType, URIDecorationType,
     spaceAfterDecorationType, horizontalLineDecorationType}

\* Decorator.range
range(ed, start, end) ==
    Range(positionAt(ed.text, start), positionAt(ed.text, end))

\* Decorator.isInsideCodeBlock
isInsideCodeBlock(r, codeBlockRanges) ==
    \E j \in 1..Len(codeBlockRanges) : contains(codeBlockRanges[j], r)

\* a selection test that looks at the first line of the range only
isFirstLineOfRangeSelected(ed, r) ==
    \E sel \in ed.selections :
        sel.start.line <= r.start.line /\ r.start.line <= sel.end.line

\* Decorator.isLineOfRangeSelected
isLineOfRangeSelected(ed, r) ==
    \E sel \in ed.selections :
        ~(r.end.line < sel.start.line \/ r.start.line > sel.end.line)

\* [f(s[1]), ..., f(s[n])] flattened, f giving a sequence for each element
RECURSIVE FlatMap(_, _, _)
FlatMap(F(_), s, j) ==
    IF j > Len(s) THEN <<>> ELSE F(s[j]) \o FlatMap(F, s, j + 1)

\* code ranges of the code that is shown decorated only: a range with a
\* selected line is left out
getCodeBlockRangesOfHiddenCode(ed, documentText) ==
    LET R(m) == IF isLineOfRangeSelected(ed, range(ed, m.index, m.end))
                THEN <<>>
                ELSE <<range(ed, m.index, m.end)>>
    IN FlatMap(R, execLoop(BLOCK_CODE_REGEX, documentText, 0), 1)
           \o FlatMap(R, execLoop(INLINE_CODE_REGEX, documentText, 0), 1)

\* Decorator.getCodeBlockRanges: scans with fresh copies of the two regexes
getCodeBlockRanges(ed, documentText) ==
    LET R(m) == <<range(ed, m.index, m.end)>> IN
    FlatMap(R, execLoop(BLOCK_CODE_REGEX, documentText, 0), 1)
        \o FlatMap(R, execLoop(INLINE_CODE_REGEX, documentText, 0), 1)

\* hide ranges whose second range lies behind the match, not at its end
getSymmetricHideRangesBehindMatch(ed, documentText, regex, li) ==
    IF ed = undefined THEN <<>>
    ELSE LET R(m) ==
                 LET parent == range(ed, m.index, m.end) IN
                 << [range |-> range(ed, m.index, m.index + m.g[1]),
                     parent |-> parent],
                    [range |-> range(ed, m.end, m.end + m.g[Len(m.g)]),
                     parent |-> parent] >>
         IN FlatMap(R, execLoop(regex, documentText, li), 1)

\* Decorator.getSymmetricHideRanges, the scan entered with regex.lastIndex = li
getSymmetricHideRanges(ed, documentText, regex, li) ==
    IF ed = undefined THEN <<>>
    ELSE LET R(m) ==
                 LET parent == range(ed, m.index, m.end) IN
                 << [range |-> range(ed, m.index, m.index + m.g[1]),
                     parent |-> parent],
                    [range |-> range(ed, m.end - m.g[Len(m.g)], m.end),
                     parent |-> parent] >>
         IN FlatMap(R, execLoop(regex, documentText, li), 1)

\* Decorator.getFullMatchRanges, the scan entered with regex.lastIndex = li
getFullMatchRanges(ed, documentText, regex, li) ==
    IF ed = undefined THEN <<>>
    ELSE LET R(m) ==
                 LET fullRange == range(ed, m.index, m.end) IN
                 << [range |-> fullRange, parent |-> fullRange] >>
         IN FlatMap(R, execLoop(regex, documentText, li), 1)

\* ranges.map(({range, parent}) => ({range, parent, type}))
WithType(ranges, type) ==
    [j \in 1..Len(ranges) |->
        [range |-> ranges[j].range, parent |-> ranges[j].parent,
         type |-> type]]

\* the hide decorations of bold alone
boldHideOnly(ed, documentText, li) ==
    WithType(getSymmetricHideRanges(ed, documentText, BOLD_REGEX, li["BOLD"]),
             hideDecorationType)

\* Decorator.bold; li gives the lastIndex of each shared regex on entry
bold(ed, documentText, li) ==
    LET hideRanges == getSymmetricHideRanges(ed, documentText, BOLD_REGEX,
                                             li["BOLD"])
        colorRanges == getFullMatchRanges(ed, documentText, BOLD_REGEX, 0)
    IN WithType(hideRanges, hideDecorationType)
           \o WithType(colorRanges, defaultColorDecorationType)

\* Decorator.italic
italic(ed, documentText, li) ==
    LET hideRanges == getSymmetricHideRanges(ed, documentText, ITALIC_REGEX,
                                             li["ITALIC"])
        colorRanges == getFullMatchRanges(ed, documentText, ITALIC_REGEX, 0)
    IN WithType(hideRanges, hideDecorationType)
           \o WithType(colorRanges, defaultColorDecorationType)

\* Decorator.strikethrough
strikethrough(ed, documentText, li) ==
    WithType(getSymmetricHideRanges(ed, documentText, STRIKETHROUGH_REGEX,
                                    li["STRIKETHROUGH"]),
             hideDecorationType)

\* Decorator.inlineCode
inlineCode(ed, documentText, li) ==
    WithType(getSymmetricHideRanges(ed, documentText, INLINE_CODE_REGEX,
                                    li["INLINE_CODE"]),
             hideDecorationType)

\* Decorator.blockCode
blockCode(ed, documentText, li) ==
    WithType(getSymmetricHideRanges(ed, documentText, BLOCK_CODE_REGEX,
                                    li["BLOCK_CODE"]),
             hideDecorationType)

\* Decorator.simpleURI
simpleURI(ed, documentText, li) ==
    WithType(getSymmetricHideRanges(ed, documentText, SIMPLE_URI_REGEX,
                                    li["SIMPLE_URI"]),
             hideDecorationType)

\* Decorator.aliasedURI
aliasedURI(ed, documentText, li) ==
    IF ed = undefined THEN [decorations |-> <<>>, linkData |-> <<>>]
    ELSE LET ms == execLoop(ALIASED_URI_REGEX, documentText,
                            li["ALIASED_URI"])
             D(m) ==
                 LET openBracketStart == m.index
                     linkTextStart == openBracketStart + m.g[1]
                     middlePartStart == linkTextStart + m.g[2]
                     parent == range(ed, m.index, m.end)
                     linkRange == range(ed, linkTextStart, middlePartStart)
                 IN << [range |-> range(ed, openBracketStart, linkTextStart),
                        parent |-> parent, type |-> hideDecorationType],
                       [range |-> range(ed, middlePartStart, m.end),
                        parent |-> parent, type |-> hideDecorationType],
                       [range |-> linkRange, parent |-> parent,
                        type |-> URIDecorationType] >>
             L(m) ==
                 LET linkTextStart == m.index + m.g[1]
                     middlePartStart == linkTextStart + m.g[2]
                     urlStart == middlePartStart + m.g[3]
                 IN << [range |-> range(ed, linkTextStart, middlePartStart),
                        target |-> Sub(documentText, urlStart,
                                       urlStart + m.g[4])] >>
         IN [decorations |-> FlatMap(D, ms, 1), linkData |-> FlatMap(L, ms, 1)]

\* a reference link matcher that hides fully whatever hideFully is
referenceURIAlwaysFully(ed, documentText, hideFully, li) ==
    IF ed = undefined THEN [decorations |-> <<>>, linkData |-> <<>>]
    ELSE LET D(m) ==
                 LET parent == range(ed, m.index, m.end)
                     linkTextEnd == m.index + m.g[1] + m.g[2]
                 IN << [range |-> range(ed, m.index, m.index + m.g[1]),
                        parent |-> parent, type |-> hideDecorationType],
                       [range |-> range(ed, linkTextEnd, linkTextEnd + m.g[3]),
                        parent |-> parent, type |-> hideDecorationType],
                       [range |-> range(ed, linkTextEnd + m.g[3], m.end),
                        parent |-> parent, type |-> hideDecorationType],
                       [range |-> range(ed, m.index + m.g[1], linkTextEnd),
                        parent |-> parent, type |-> URIDecorationType] >>
         IN [decorations |->
                 FlatMap(D, execLoop(REFERENCE_URI_REGEX, documentText,
                                     li["REFERENCE_URI"]), 1),
             linkData |-> <<>>]

\* Decorator.referenceURI: linkData is declared and returned, nothing is
\* ever pushed to it
referenceURI(ed, documentText, hideFully, li) ==
    IF ed = undefined THEN [decorations |-> <<>>, linkData |-> <<>>]
    ELSE LET ms == execLoop(REFERENCE_URI_REGEX, documentText,
                            li["REFERENCE_URI"])
             D(m) ==
                 LET linkTextStart == m.index + m.g[1]
                     linkTextEnd == linkTextStart + m.g[2]
                     parent == range(ed, m.index, m.end)
                     openLinkBracketRange == range(ed, m.index, linkTextStart)
                     linkTextRange == range(ed, linkTextStart, linkTextEnd)
                     closeLinkBracketRange ==
                         range(ed, linkTextEnd, linkTextEnd + m.g[3])
                     refPartRange == range(ed, linkTextEnd + m.g[3], m.end)
                     existingSpace == m.g[4]
                 IN IF hideFully
                    THEN << [range |-> openLinkBracketRange, parent |-> parent,
                             type |-> hideDecorationType],
                            [range |-> closeLinkBracketRange,
                             parent |-> parent, type |-> hideDecorationType],
                            [range |-> refPartRange, parent |-> parent,
                             type |-> hideDecorationType],
                            [range |-> linkTextRange, parent |-> parent,
                             type |-> URIDecorationType] >>
                    ELSE << [range |-> openLinkBracketRange, parent |-> parent,
                             type |-> hideDecorationType],
                            [range |-> closeLinkBracketRange,
                             parent |-> parent, type |-> hideDecorationType],
                            [range |-> linkTextRange, parent |-> parent,
                             type |-> URIDecorationType],
                            [range |-> refPartRange, parent |-> parent,
                             type |-> defaultColorDecorationType] >>
                         \o (IF existingSpace = 0
                             THEN << [range |-> linkTextRange,
                                      parent |-> parent,
                                      type |-> spaceAfterDecorationType] >>
                             ELSE <<>>)
         IN [decorations |-> FlatMap(D, ms, 1), linkData |-> <<>>]

\* the length of the blanks and hashes that start group, without the blank
\* that follows them
headingPrefixLengthOfHashes(group) ==
    SkipClass(group, SkipClass(group, 0, Blank), {"#"})

\* the length of the match of the pattern of decorator.ts 564 (string start,
\* blanks, 1 to 6 hashes, one blank or the end of the string) in group; 0
\* when it does not match
headingPrefixLength(group) ==
    LET h == SkipClass(group, 0, Blank)
        k == SkipClass(group, h, {"#"})
    IN IF k - h < 1 \/ k - h > 6 THEN 0
       ELSE IF At(group, k) \in Blank THEN k + 1
       ELSE IF k = Len(group) THEN k
       ELSE 0

\* Decorator.headings
headings(ed, documentText, li) ==
    IF ed = undefined THEN <<>>
    ELSE LET H(m) ==
                 LET group == Sub(documentText, m.index, m.end)
                     prefixLength == headingPrefixLength(group)
                 IN IF prefixLength = 0 THEN <<>>
                    ELSE << [range |-> range(ed, m.index,
                                             m.index + prefixLength),
                             parent |-> range(ed, m.index,
                                              m.index + Len(group))] >>
             hideRanges == FlatMap(H, execLoop(ALL_HEADINGS_REGEX,
                                               documentText,
                                               li["ALL_HEADINGS"]), 1)
             colorRanges == getFullMatchRanges(ed, documentText,
                                               ALL_HEADINGS_REGEX, 0)
             h1Ranges == getFullMatchRanges(ed, documentText, H1_REGEX,
                                            li["H1"])
             h2Ranges == getFullMatchRanges(ed, documentText, H2_REGEX,
                                            li["H2"])
             h3Ranges == getFullMatchRanges(ed, documentText, H3_REGEX,
                                            li["H3"])
         IN WithType(hideRanges, hideDecorationType)
                \o WithType(colorRanges, defaultColorDecorationType)
                \o WithType(h1Ranges, xxlTextDecorationType)
                \o WithType(h2Ranges, xlTextDecorationType)
                \o WithType(h3Ranges, lTextDecorationType)

\* String.prototype.lastIndexOf
RECURSIVE lastIndexOfFrom(_, _, _)
lastIndexOfFrom(str, sub, k) ==
    IF k < 0 THEN -1
    ELSE IF Looking(str, k, sub) THEN k
    ELSE lastIndexOfFrom(str, sub, k - 1)

lastIndexOf(str, sub) == lastIndexOfFrom(str, sub, Len(str) - Len(sub))

\* Decorator.horizontalLine
horizontalLine(ed, documentText, li) ==
    IF ed = undefined THEN <<>>
    ELSE LET D(m) ==
                 LET fullMatch == Sub(documentText, m.index, m.end)
                     leadingSpace == Sub(documentText,
                                         m.end - m.g[3] - m.g[2] - m.g[1],
                                         m.end - m.g[3] - m.g[2])
                     lineChars == Sub(documentText, m.end - m.g[3] - m.g[2],
                                      m.end - m.g[3])
                     trailingSpace == Sub(documentText, m.end - m.g[3], m.end)
                     lineContentStart ==
                         lastIndexOf(fullMatch, leadingSpace \o lineChars)
                     lineStart == m.index + lineContentStart
                     lineEnd == lineStart + Len(leadingSpace) + Len(lineChars)
                                    + Len(trailingSpace)
                     parent == range(ed, lineStart, lineEnd)
                 IN << [range |-> parent, parent |-> parent,
                        type |-> horizontalLineDecorationType] >>
         IN FlatMap(D, execLoop(HORIZONTAL_LINE_REGEX, documentText,
                                li["HORIZONTAL_LINE"]), 1)

(***************************************************************************)
(* Configuration: the settings of section markdownInlinePreview that have  *)
(* a value, as a function from their keys.                                 *)
(***************************************************************************)
ConfigKeys ==
    {"bold", "italic", "strikethrough", "inlineCode", "blockCode",
     "simpleURI", "headings", "horizontalLine", "aliasedURIs",
     "referenceURIs", "referenceURIsFully", "hideAliasedURIs"}

\* the settings the user changes
ChangedKeys == {"bold", "aliasedURIs", "hideAliasedURIs"}

\* WorkspaceConfiguration.get(key, defaultValue)
get(config, key, defaultValue) ==
    IF key \in DOMAIN config THEN config[key] ELSE defaultValue

\* Map.get(type) || [], push(range), Map.set(type, existing): the map is the
\* sequence of its entries in insertion order
MapPush(map, type, r) ==
    IF \E j \in 1..Len(map) : map[j].type = type
    THEN [j \in 1..Len(map) |->
             IF map[j].type = type
             THEN [type |-> type, ranges |-> Append(map[j].ranges, r)]
             ELSE map[j]]
    ELSE Append(map, [type |-> type, ranges |-> <<r>>])

RECURSIVE MapPushAll(_, _, _)
MapPushAll(map, decorations, j) ==
    IF j > Len(decorations) THEN map
    ELSE MapPushAll(MapPush(map, decorations[j].type, decorations[j].range),
                    decorations, j + 1)

\* a test that keeps every code decoration, whatever is selected
keepEveryCodeDecoration(ed, decoration) == TRUE

\* a test that filters a code decoration as the other decorations are
\* filtered: by selection and by containment in a code range
keepCodeDecorationOutsideCode(ed, decoration) ==
    /\ ~isLineOfRangeSelected(ed, decoration.parent)
    /\ ~isInsideCodeBlock(decoration.parent, getCodeBlockRanges(ed, ed.text))

\* decorator.ts 364: the test that keeps a code decoration
keepCodeDecoration(ed, decoration) ==
    ~isLineOfRangeSelected(ed, decoration.parent)

\* a test that looks at the range of the decoration, not at its parent
keepDecorationByRange(ed, decoration, codeBlockRanges) ==
    /\ ~isLineOfRangeSelected(ed, decoration.range)
    /\ ~isInsideCodeBlock(decoration.range, codeBlockRanges)

\* decorator.ts 373: the test that keeps any other decoration
keepDecoration(ed, decoration, codeBlockRanges) ==
    /\ ~isLineOfRangeSelected(ed, decoration.parent)
    /\ ~isInsideCodeBlock(decoration.parent, codeBlockRanges)

\* decorator.ts 381: the test that keeps a link
keepLink(ed, link, codeBlockRanges) ==
    /\ ~isLineOfRangeSelected(ed, link.range)
    /\ ~isInsideCodeBlock(link.range, codeBlockRanges)

\* what a call of updateDecorations that returns at a guard does
NoRecompute ==
    [ran |-> FALSE, documentText |-> <<>>, setDecorations |-> <<>>,
     published |-> FALSE, links |-> <<>>, triggerUpdate |-> 0,
     scanned |-> {}]

\* the shared regexes the matchers enabled by config scan
ScannedRegexes(config) ==
    (IF get(config, "bold", TRUE) THEN {"BOLD"} ELSE {})
    \cup (IF get(config, "italic", TRUE) THEN {"ITALIC"} ELSE {})
    \cup (IF get(config, "strikethrough", TRUE) THEN {"STRIKETHROUGH"} ELSE {})
    \cup (IF get(config, "inlineCode", TRUE) THEN {"INLINE_CODE"} ELSE {})
    \cup (IF get(config, "blockCode", TRUE) THEN {"BLOCK_CODE"} ELSE {})
    \cup (IF get(config, "simpleURI", TRUE) THEN {"SIMPLE_URI"} ELSE {})
    \cup (IF get(config, "headings", TRUE)
          THEN {"ALL_HEADINGS", "H1", "H2", "H3"} ELSE {})
    \cup (IF get(config, "horizontalLine", TRUE)
          THEN {"HORIZONTAL_LINE"} ELSE {})
    \cup (IF get(config, "aliasedURIs", FALSE) THEN {"ALIASED_URI"} ELSE {})
    \cup (IF get(config, "referenceURIs", TRUE)
          THEN {"REFERENCE_URI"} ELSE {})

\* decorator.ts 326-332: the decorations of the code matchers
codeDecorationsOf(ed, documentText, config, li) ==
    (IF get(config, "inlineCode", TRUE)
     THEN inlineCode(ed, documentText, li) ELSE <<>>)
    \o (IF get(config, "blockCode", TRUE)
        THEN blockCode(ed, documentText, li) ELSE <<>>)

\* decorator.ts 346-350
aliasedURIResultOf(ed, documentText, config, li) ==
    IF get(config, "aliasedURIs", FALSE)
    THEN aliasedURI(ed, documentText, li)
    ELSE [decorations |-> <<>>, linkData |-> <<>>]

\* decorator.ts 352-357
referenceURIResultOf(ed, documentText, config, li) ==
    IF get(config, "referenceURIs", TRUE)
    THEN referenceURI(ed, documentText,
                      get(config, "referenceURIsFully", TRUE), li)
    ELSE [decorations |-> <<>>, linkData |-> <<>>]

\* decorator.ts 314-357: the decorations of all other matchers, in the order
\* they are pushed; aliased and reference are the arrays the two link
\* matchers returned
allDecorationsOf(ed, documentText, config, li, aliased, reference) ==
    (IF get(config, "bold", TRUE)
     THEN bold(ed, documentText, li) ELSE <<>>)
    \o (IF get(config, "italic", TRUE)
        THEN italic(ed, documentText, li) ELSE <<>>)
    \o (IF get(config, "strikethrough", TRUE)
        THEN strikethrough(ed, documentText, li) ELSE <<>>)
    \o (IF get(config, "simpleURI", TRUE)
        THEN simpleURI(ed, documentText, li) ELSE <<>>)
    \o (IF get(config, "headings", TRUE)
        THEN headings(ed, documentText, li) ELSE <<>>)
    \o (IF get(config, "horizontalLine", TRUE)
        THEN horizontalLine(ed, documentText, li) ELSE <<>>)
    \o aliased
    \o reference

\* decorator.ts 360-378: the map from decoration type to ranges
decorationMapOf(ed, codeDecorations, allDecorations, codeBlockRanges) ==
    LET KeepCode(d) == keepCodeDecoration(ed, d)
        Keep(d) == keepDecoration(ed, d, codeBlockRanges)
    IN MapPushAll(MapPushAll(<<>>, SelectSeq(codeDecorations, KeepCode), 1),
                  SelectSeq(allDecorations, Keep), 1)

\* decorator.ts 381
filteredLinksOf(ed, allLinks, codeBlockRanges) ==
    LET KeepL(l) == keepLink(ed, l, codeBlockRanges) IN
    SelectSeq(allLinks, KeepL)

\* decorator.ts 386-388: decorationMap.forEach calls setDecorations once for
\* each entry of the map
setDecorationsCalls(decorationMap) == decorationMap

\* Decorator.updateDecorations with this.activeEditor = ed, this.linkProvider
\* set or not, the configuration config and the regexes' lastIndex li: the
\* text it read and the calls it makes on the editor and the link provider
updateDecorations(ed, linkProviderSet, config, li) ==
    IF ed = undefined THEN NoRecompute
    ELSE IF ed.languageId \notin {"markdown", "md", "mdx"} THEN NoRecompute
    ELSE
    LET documentText == ed.text
        Filter(codeBlockRanges, aliasedURIResult, referenceURIResult) ==
            [ran |-> TRUE, documentText |-> documentText,
             setDecorations |->
                 setDecorationsCalls(
                     decorationMapOf(
                         ed,
                         codeDecorationsOf(ed, documentText, config, li),
                         allDecorationsOf(ed, documentText, config, li,
                                          aliasedURIResult.decorations,
                                          referenceURIResult.decorations),
                         codeBlockRanges)),
             published |-> linkProviderSet,
             links |-> IF linkProviderSet
                       THEN filteredLinksOf(ed,
                                            aliasedURIResult.linkData
                                                \o referenceURIResult.linkData,
                                            codeBlockRanges)
                       ELSE <<>>,
             triggerUpdate |-> IF linkProviderSet THEN 1 ELSE 0,
             scanned |-> ScannedRegexes(config)]
    IN Filter(getCodeBlockRanges(ed, documentText),
              aliasedURIResultOf(ed, documentText, config, li),
              referenceURIResultOf(ed, documentText, config, li))

(***************************************************************************)
(* The extension in its host.  The host holds the editors (each with its   *)
(* document and selections), the active editor of the window, the          *)
(* settings, and for each editor the ranges it renders per decoration      *)
(* type; the extension holds the Decorator and the link provider.          *)
(***************************************************************************)
VARIABLES
    editors,        \* host: editor id -> [id, languageId, text, selections]
    window,         \* host: vscode.window.activeTextEditor, an id or none
    settings,       \* host: the configuration of markdownInlinePreview
    rendered,       \* host: editor id -> decoration type -> ranges it holds
    activeEditor,   \* Decorator.activeEditor, an id or none
    linkProvider,   \* Decorator.linkProvider is set
    links,          \* MarkdownDocumentLinkProvider.links
    linksBefore,    \* the links the provider held when the last recompute
                    \* that published a list replaced them
    lastIndex,      \* lastIndex of each shared regex
    last,           \* what updateDecorations did in the event handled last
    result          \* the last direct call of a Decorator method: what it
                    \* was given, the editor that was active, what it
                    \* returned

vars == <<editors, window, settings, rendered, activeEditor, linkProvider,
          links, linksBefore, lastIndex, last, result>>

\* the most simultaneous selections (cursors) an editor has
MaxSelections == 1
\* the most settings that have a value at once
MaxSettings == 1

none == "undefined"
\* no method of the Decorator has been called directly
NoCall == [method |-> "", regex |-> "", hideFully |-> FALSE,
           documentText |-> <<>>, editor |-> "undefined", threw |-> FALSE,
           value |-> <<>>]
EditorIds == {"e1", "e2", "e3"}
\* the editors whose text and selections change
EditedIds == {"e1"}

\* the texts the edited document takes
Documents ==
    { <<>>,
      <<"*", "*", "a", "*", "*", NL, "#", " ", "h">>,
      <<"[", "a", "]", "(", "b", ":", "c", ")", NL, "~", "~", "b", "~", "~">> }

\* the texts of the document that is decorated and not edited
Texts ==
    { \* bold, italic and strikethrough, one to a line
      <<"*", "*", "a", "*", "*", NL, "_", "b", "_", NL, "~", "~", "c", "~",
        "~">>,
      \* inline code, a heading, plain text
      <<BQ, "a", BQ, NL, "#", " ", "h", NL, "x">>,
      \* a fenced block holding a heading and bold, then a line
      <<BQ, BQ, BQ, NL, "#", " ", "h", NL, "*", "*", "a", "*", "*", NL, BQ,
        BQ, BQ, NL, "x">>,
      \* a fenced block whose closing fence ends the text
      <<"x", NL, BQ, BQ, BQ, "p", NL, "#", " ", "h", NL, BQ, BQ, BQ>>,
      \* the same with tildes, holding bold
      <<"x", NL, "~", "~", "~", NL, "*", "*", "a", "*", "*", NL, "~", "~",
        "~">>,
      \* a bare URI
      <<"<", "a", ":", "b", ">", NL, "x">>,
      \* an aliased link
      <<"[", "a", "]", "(", "b", ":", "c", ")", NL, "x">>,
      \* a reference link
      <<"[", "a", "]", "[", "b", "]", NL, "x">>,
      \* a horizontal rule between blank lines
      <<"x", NL, NL, "-", "-", "-", NL, NL, "y">>,
      \* a fenced block holding a heading, then bold that overlaps inline code
      \* without lying inside it
      <<BQ, BQ, BQ, NL, "#", " ", "h", NL, BQ, BQ, BQ, NL,
        "*", "*", "a", BQ, "b", "*", "*", "c", BQ>>,
      \* inline code that holds the text of an aliased link only
      <<"x", NL, BQ, "[", "a", BQ, "]", "(", "x", ":", "y", ")">>,
      \* italic inside inline code, bold outside
      <<BQ, "_", "a", "_", BQ, NL, "*", "*", "b", "*", "*">>,
      \* inline code inside a fenced block
      <<BQ, BQ, BQ, NL, BQ, "a", BQ, NL, BQ, BQ, BQ, NL, "x", NL, "y">> }

Selection(a, b) == [start |-> [line |-> a], end |-> [line |-> b]]

\* the sets of at most k of the selections sels, none empty
RECURSIVE SetsUpTo(_, _)
SetsUpTo(sels, k) ==
    IF k <= 1 THEN {{sel} : sel \in sels}
    ELSE LET smaller == SetsUpTo(sels, k - 1) IN
         smaller \cup {S \cup {sel} : S \in smaller, sel \in sels}

\* the selections an editor showing text t can have: at least one
SelectionSets(t) ==
    LET n == lineCount(t) IN
    SetsUpTo({sel \in {Selection(a, b) : a \in 0..(n - 1), b \in 0..(n - 1)} :
                 sel.start.line <= sel.end.line},
             MaxSelections)

\* the editor object an id stands for
Editor(eds, id) == IF id = none THEN undefined ELSE eds[id]

TypeOfKind(map, kind) == {j \in 1..Len(map) : map[j].type = kind}

\* TextEditor.setDecorations for each call of calls, in order: the ranges of
\* a type are replaced, those of the other types stay
Render(held, calls) ==
    [k \in DecorationKinds |->
        LET js == TypeOfKind(calls, k) IN
        IF js = {} THEN held[k]
        ELSE calls[CHOOSE j \in js : \A i \in js : i <= j].ranges]

\* an updateDecorations that pushes its links onto the list the provider
\* holds and leaves the old entries in it
ApplyAppendingLinks(u, id) ==
    /\ rendered' = IF u.ran
                   THEN [rendered EXCEPT ![id] = Render(@, u.setDecorations)]
                   ELSE rendered
    /\ links' = IF u.published THEN links \o u.links ELSE links
    /\ linksBefore' = IF u.published THEN links ELSE linksBefore
    /\ lastIndex' = [r \in SharedRegexNames |->
                        IF r \in u.scanned
                        THEN lastIndexAfterLoop(RegexOf(r), u.documentText,
                                                lastIndex[r])
                        ELSE lastIndex[r]]

\* the state the calls of one updateDecorations leave: u is what it did, id
\* the editor it ran on
Apply(u, id) ==
    /\ rendered' = IF u.ran
                   THEN [rendered EXCEPT ![id] = Render(@, u.setDecorations)]
                   ELSE rendered
    /\ links' = IF u.published THEN u.links ELSE links
    /\ linksBefore' = IF u.published THEN links ELSE linksBefore
    \* every scan loop of a shared regex runs until its exec fails
    /\ lastIndex' = [r \in SharedRegexNames |->
                        IF r \in u.scanned
                        THEN lastIndexAfterLoop(RegexOf(r), u.documentText,
                                                lastIndex[r])
                        ELSE lastIndex[r]]

Init ==
    /\ editors =
         [id \in EditorIds |->
            [id |-> id,
             languageId |-> IF id = "e3" THEN "plaintext" ELSE "markdown",
             text |-> IF id = "e1" THEN <<>>
                      ELSE <<"*", "*", "a", "*", "*", NL, "#", " ", "h">>,
             selections |-> {Selection(0, 0)}]]
    /\ window = none
    /\ settings = <<>>
    /\ rendered = [id \in EditorIds |-> [k \in DecorationKinds |-> <<>>]]
    /\ activeEditor = none
    /\ linkProvider = TRUE
    /\ links = <<>>
    /\ linksBefore = <<>>
    /\ lastIndex = [r \in SharedRegexNames |-> 0]
    /\ last = NoRecompute
    /\ result = NoCall

\* a setActiveEditor without the guard: it stores undefined too
setActiveEditorUnguarded(w) ==
    /\ activeEditor' = w
    /\ last' = updateDecorations(Editor(editors, w), linkProvider, settings,
                                 lastIndex)
    /\ Apply(last', w)

\* Decorator.setActiveEditor(textEditor), the handler of
\* onDidChangeActiveTextEditor
setActiveEditor(w) ==
    IF w = none
    THEN /\ last' = NoRecompute
         /\ UNCHANGED <<activeEditor, rendered, links, linksBefore,
                        lastIndex>>
    ELSE /\ activeEditor' = w
         /\ last' = updateDecorations(editors[w], linkProvider, settings,
                                      lastIndex)
         /\ Apply(last', w)

\* the window's active editor changes to w
ChangeActiveTextEditor ==
    \E w \in DOMAIN editors \cup {none} :
        /\ w # window
        /\ window' = w
        /\ setActiveEditor(w)
        /\ UNCHANGED <<editors, settings, linkProvider, result>>

\* the selections of editor e change; the handler of
\* onDidChangeTextEditorSelection calls updateDecorations
ChangeTextEditorSelection ==
    \E e \in EditedIds \cap DOMAIN editors : \E S \in SelectionSets(editors[e].text) :
        /\ S # editors[e].selections
        /\ editors' = [editors EXCEPT ![e].selections = S]
        /\ last' = updateDecorations(Editor(editors', activeEditor),
                                     linkProvider, settings, lastIndex)
        /\ Apply(last', activeEditor)
        /\ UNCHANGED <<window, settings, activeEditor, linkProvider, result>>

\* the text of editor e's document changes while its selections stay; no
\* handler of the extension is registered for the change of a document
ChangeTextDocument ==
    \E e \in EditedIds \cap DOMAIN editors : \E t \in Documents :
        /\ t # editors[e].text
        /\ \A sel \in editors[e].selections : sel.end.line < lineCount(t)
        /\ editors' = [editors EXCEPT ![e].text = t]
        /\ last' = NoRecompute
        /\ UNCHANGED <<window, settings, rendered, activeEditor,
                       linkProvider, links, linksBefore, lastIndex,
                       result>>

\* ConfigurationChangeEvent.affectsConfiguration(section) for the change of
\* one key of markdownInlinePreview
affectsConfiguration(key, section) == section = key

\* setting key of markdownInlinePreview changes to value; the handler of
\* onDidChangeConfiguration
ChangeConfiguration ==
    \E key \in ChangedKeys : \E value \in BOOLEAN :
        /\ get(settings, key, ~value) # value
        /\ key \in DOMAIN settings \/ Cardinality(DOMAIN settings) < MaxSettings
        /\ settings' = [k \in DOMAIN settings \cup {key} |->
                           IF k = key THEN value ELSE settings[k]]
        /\ IF affectsConfiguration(key, "hideAliasedURIs")
           THEN /\ last' = updateDecorations(Editor(editors, activeEditor),
                                             linkProvider, settings',
                                             lastIndex)
                /\ Apply(last', activeEditor)
           ELSE /\ last' = NoRecompute
                /\ UNCHANGED <<rendered, links, linksBefore, lastIndex>>
        /\ UNCHANGED <<editors, window, activeEditor, linkProvider, result>>

Next ==
    \/ ChangeActiveTextEditor
    \/ ChangeTextEditorSelection
    \/ ChangeTextDocument
    \/ ChangeConfiguration

Spec == Init /\ [][Next]_vars

(***************************************************************************)
(* The extension activated in a window with one markdown editor, whose     *)
(* document is one of Texts and is not edited.                             *)
(***************************************************************************)
\* the settings the user has when the extension is activated
InitialSettings ==
    {<<>>, [aliasedURIs |-> TRUE], [blockCode |-> FALSE],
     [inlineCode |-> FALSE]}

RecomputeInit ==
    /\ \E t \in Texts :
           editors = [id \in {"e1"} |->
                        [id |-> id, languageId |-> "markdown", text |-> t,
                         selections |-> {Selection(0, 0)}]]
    /\ window = none
    /\ settings \in InitialSettings
    /\ rendered = [id \in {"e1"} |-> [k \in DecorationKinds |-> <<>>]]
    /\ activeEditor = none
    /\ linkProvider = TRUE
    /\ links = <<>>
    /\ linksBefore = <<>>
    /\ lastIndex = [r \in SharedRegexNames |-> 0]
    /\ last = NoRecompute
    /\ result = NoCall

RecomputeNext ==
    \/ ChangeActiveTextEditor
    \/ ChangeTextEditorSelection

RecomputeSpec == RecomputeInit /\ [][RecomputeNext]_vars

(***************************************************************************)
(* The public methods of the Decorator called directly, as the tests of    *)
(* the repository call them: with the text of a document, before or after  *)
(* an editor has been made the active one.                                 *)
(***************************************************************************)
\* the texts of the document the methods are called with
MatcherTexts ==
    { <<>>,
      \* sample.md 5
      <<"*", "*", "b", "o", "l", "d", "*", "*", " ", "a", "n", "d", " ",
        "_", "i", "t", "a", "l", "i", "c", "_">>,
      <<"#", " ", "R", "e", "a", "l", " ", "h", "e", "a", "d", "i", "n", "g">>,
      \* bold inside inline code and bold outside (the test 'inline code
      \* content is excluded from other decorations')
      <<"S", "o", "m", "e", " ", BQ, "*", "*", "n", "o", "t", " ", "b", "o",
        "l", "d", "*", "*", BQ, " ", "t", "e", "x", "t", " ", "a", "n", "d",
        " ", "*", "*", "r", "e", "a", "l", " ", "b", "o", "l", "d", "*", "*",
        ".">>,
      \* headings of levels 2, 3 and 4
      <<"#", "#", " ", "h", NL, "#", "#", "#", " ", "h", NL,
        "#", "#", "#", "#", " ", "h">>,
      \* levels 5 and 6, seven hashes, a hash followed by a digit
      <<"#", "#", "#", "#", "#", " ", "h", NL,
        "#", "#", "#", "#", "#", "#", TAB, "h", NL,
        "#", "#", "#", "#", "#", "#", "#", " ", "h", NL, "#", "5">>,
      \* a bare hash, an indented heading, an indented bare run of hashes
      <<"#", NL, " ", TAB, "#", " ", "h", NL, " ", "#", "#", "#">>,
      \* reference links without and with a space between the groups
      <<"[", "a", "]", "[", "b", "]", " ", "[", "c", "]", " ", "[", "d", "]">>,
      <<"[", "a", "]", "(", "b", ":", "c", ")">>,
      <<"~", "~", "a", "~", "~", " ", "<", "a", ":", "b", ">">>,
      \* horizontal rules between blank lines, the second one indented
      <<"x", NL, NL, "-", "-", "-", NL, NL, " ", "*", "*", "*", "*", TAB, NL,
        NL, "y">>,
      \* a fenced block holding a heading
      <<BQ, BQ, BQ, "p", NL, "#", " ", "h", NL, BQ, BQ, BQ, NL>>,
      \* sample.md 38-42: three rules, one blank line between two of them
      <<"x", NL, NL, "-", "-", "-", NL, NL, "*", "*", "*", NL, NL,
        "_", "_", "_", NL, NL, "#", "#", " ", "h">>,
      \* a rule behind a blank first line, a rule before a blank last line
      <<NL, "-", "-", "-", NL, NL, "x", NL, NL, "_", "_", "_", "_", NL>> }

\* the regexes the code passes to getSymmetricHideRanges
SymmetricRegexNames ==
    {"BOLD", "ITALIC", "STRIKETHROUGH", "INLINE_CODE", "BLOCK_CODE",
     "SIMPLE_URI"}

\* the regexes the code passes to getFullMatchRanges
FullMatchRegexNames == {"BOLD", "ITALIC", "ALL_HEADINGS", "H1", "H2", "H3"}

\* decorator.ts 711: this.activeEditor!.document is a TypeError when no editor
\* is active
rangeThrows(ed) == ed = undefined

\* Decorator.getCodeBlockRanges has no guard: it calls range for the first
\* match either regex finds
getCodeBlockRangesThrows(ed, documentText) ==
    /\ rangeThrows(ed)
    /\ \/ exec(BLOCK_CODE_REGEX, documentText, 0) # NoMatch
       \/ exec(INLINE_CODE_REGEX, documentText, 0) # NoMatch

\* doc.getText() of the document the caller holds: that of the active editor,
\* of editor e1 when none is active
getText ==
    IF activeEditor = none THEN editors["e1"].text
    ELSE editors[activeEditor].text

\* a direct call of method returns value (or throws); the scan loops of the
\* shared regexes in scanned, reached only behind the guard, run to their end
Returns(method, regex, hideFully, documentText, threw, value, scanned) ==
    /\ result' = [method |-> method, regex |-> regex, hideFully |-> hideFully,
                  documentText |-> documentText, editor |-> activeEditor,
                  threw |-> threw, value |-> value]
    /\ lastIndex' = [r \in SharedRegexNames |->
                        IF r \in scanned /\ activeEditor # none
                        THEN lastIndexAfterLoop(RegexOf(r), documentText,
                                                lastIndex[r])
                        ELSE lastIndex[r]]
    /\ UNCHANGED <<editors, window, settings, rendered, activeEditor,
                   linkProvider, links, linksBefore, last>>

\* decorator.bold(doc.getText())
CallBold ==
    Returns("bold", "", FALSE, getText, FALSE,
            bold(Editor(editors, activeEditor), getText, lastIndex),
            {"BOLD"})

\* decorator.italic(doc.getText())
CallItalic ==
    Returns("italic", "", FALSE, getText, FALSE,
            italic(Editor(editors, activeEditor), getText, lastIndex),
            {"ITALIC"})

\* decorator.strikethrough(doc.getText())
CallStrikethrough ==
    Returns("strikethrough", "", FALSE, getText, FALSE,
            strikethrough(Editor(editors, activeEditor), getText, lastIndex),
            {"STRIKETHROUGH"})

\* decorator.inlineCode(doc.getText())
CallInlineCode ==
    Returns("inlineCode", "", FALSE, getText, FALSE,
            inlineCode(Editor(editors, activeEditor), getText, lastIndex),
            {"INLINE_CODE"})

\* decorator.blockCode(doc.getText())
CallBlockCode ==
    Returns("blockCode", "", FALSE, getText, FALSE,
            blockCode(Editor(editors, activeEditor), getText, lastIndex),
            {"BLOCK_CODE"})

\* decorator.simpleURI(doc.getText())
CallSimpleURI ==
    Returns("simpleURI", "", FALSE, getText, FALSE,
            simpleURI(Editor(editors, activeEditor), getText, lastIndex),
            {"SIMPLE_URI"})

\* decorator.aliasedURI(doc.getText())
CallAliasedURI ==
    Returns("aliasedURI", "", FALSE, getText, FALSE,
            aliasedURI(Editor(editors, activeEditor), getText, lastIndex),
            {"ALIASED_URI"})

\* decorator.headings(doc.getText())
CallHeadings ==
    Returns("headings", "", FALSE, getText, FALSE,
            headings(Editor(editors, activeEditor), getText, lastIndex),
            {"ALL_HEADINGS", "H1", "H2", "H3"})

\* decorator.horizontalLine(doc.getText())
CallHorizontalLine ==
    Returns("horizontalLine", "", FALSE, getText, FALSE,
            horizontalLine(Editor(editors, activeEditor), getText, lastIndex),
            {"HORIZONTAL_LINE"})

\* decorator.referenceURI(doc.getText(), hideFully)
CallReferenceURI ==
    \E hideFully \in BOOLEAN :
        Returns("referenceURI", "", hideFully, getText, FALSE,
                referenceURI(Editor(editors, activeEditor), getText,
                             hideFully, lastIndex),
                {"REFERENCE_URI"})

\* decorator.getCodeBlockRanges(doc.getText())
CallGetCodeBlockRanges ==
    IF getCodeBlockRangesThrows(Editor(editors, activeEditor), getText)
    THEN Returns("getCodeBlockRanges", "", FALSE, getText, TRUE, <<>>, {})
    ELSE Returns("getCodeBlockRanges", "", FALSE, getText, FALSE,
                 getCodeBlockRanges(Editor(editors, activeEditor), getText),
                 {})

\* decorator.getSymmetricHideRanges(doc.getText(), regex)
CallGetSymmetricHideRanges ==
    \E regex \in SymmetricRegexNames :
        Returns("getSymmetricHideRanges", regex, FALSE, getText, FALSE,
                getSymmetricHideRanges(Editor(editors, activeEditor), getText,
                                       RegexOf(regex), lastIndex[regex]),
                {regex})

\* decorator.getFullMatchRanges(doc.getText(), regex)
CallGetFullMatchRanges ==
    \E regex \in FullMatchRegexNames :
        Returns("getFullMatchRanges", regex, FALSE, getText, FALSE,
                getFullMatchRanges(Editor(editors, activeEditor), getText,
                                   RegexOf(regex), lastIndex[regex]),
                {regex})

MatcherInit ==
    /\ \E t \in MatcherTexts :
           editors = [id \in {"e1", "e2"} |->
                        [id |-> id, languageId |-> "markdown",
                         text |-> IF id = "e1" THEN t
                                  ELSE <<"*", "*", "a", "*", "*", NL, "#",
                                         " ", "h">>,
                         selections |-> {Selection(0, 0)}]]
    /\ window = none
    /\ settings = <<>>
    /\ rendered = [id \in {"e1", "e2"} |-> [k \in DecorationKinds |-> <<>>]]
    /\ activeEditor = none
    /\ linkProvider = TRUE
    /\ links = <<>>
    /\ linksBefore = <<>>
    /\ lastIndex = [r \in SharedRegexNames |-> 0]
    /\ last = NoRecompute
    /\ result = NoCall

MatcherNext ==
    \/ ChangeActiveTextEditor
    \/ CallBold
    \/ CallItalic
    \/ CallStrikethrough
    \/ CallInlineCode
    \/ CallBlockCode
    \/ CallSimpleURI
    \/ CallAliasedURI
    \/ CallReferenceURI
    \/ CallHeadings
    \/ CallHorizontalLine
    \/ CallGetCodeBlockRanges
    \/ CallGetSymmetricHideRanges
    \/ CallGetFullMatchRanges

MatcherSpec == MatcherInit /\ [][MatcherNext]_vars

(***************************************************************************)
(* The link provider in its host: the host asks it for the links of a      *)
(* markdown document, the one of the active editor or another one, while   *)
(* the user moves between editors and moves the cursor.  Aliased links are *)
(* enabled and the documents are not edited.                               *)
(***************************************************************************)
\* MarkdownDocumentLinkProvider.provideDocumentLinks(document, token) for the
\* document of editor d, which the selector of extension.ts 48-51 matches;
\* target stands for vscode.Uri.parse(target)
ProvideDocumentLinks ==
    \E d \in DOMAIN editors :
        /\ editors[d].languageId \in {"markdown", "mdx"}
        /\ result' = [method |-> "provideDocumentLinks", regex |-> "",
                      hideFully |-> FALSE, documentText |-> editors[d].text,
                      editor |-> activeEditor, threw |-> FALSE,
                      value |-> links]
        /\ UNCHANGED <<editors, window, settings, rendered, activeEditor,
                       linkProvider, links, linksBefore, lastIndex, last>>

LinkInit ==
    /\ editors =
         [id \in EditorIds |->
            [id |-> id,
             languageId |-> IF id = "e3" THEN "plaintext" ELSE "markdown",
             text |-> IF id = "e1"
                      THEN <<"[", "a", "]", "(", "b", ":", "c", ")", NL,
                             "~", "~", "b", "~", "~">>
                      ELSE <<"*", "*", "a", "*", "*", NL, "#", " ", "h">>,
             selections |-> {Selection(0, 0)}]]
    /\ window = none
    /\ settings = [aliasedURIs |-> TRUE]
    /\ rendered = [id \in EditorIds |-> [k \in DecorationKinds |-> <<>>]]
    /\ activeEditor = none
    /\ linkProvider = TRUE
    /\ links = <<>>
    /\ linksBefore = <<>>
    /\ lastIndex = [r \in SharedRegexNames |-> 0]
    /\ last = NoRecompute
    /\ result = NoCall

LinkNext ==
    \/ ChangeActiveTextEditor
    \/ ChangeTextEditorSelection
    \/ ProvideDocumentLinks

LinkSpec == LinkInit /\ [][LinkNext]_vars

(***************************************************************************)
(* The two emphasis matchers on every short text of stars, underscores, a  *)
(* letter and a space, and on texts in which both find a construct.        *)
(***************************************************************************)
\* the longest text of which every one is tried
MaxEmphasisLen == 6

EmphasisChars == {"*", "_", "x", " "}

EmphasisTexts ==
    UNION {[1..n -> EmphasisChars] : n \in 0..MaxEmphasisLen}
        \cup { <<"*", "*", "x", "*", "*", " ", "*", "x", "*">>,
               <<"_", "x", "_", "x", "_", "_", "x", "_", "_">>,
               <<"*", "x", " ", "*", "*", "x", "*", "*", " ", "x", "*">> }

EmphasisInit ==
    /\ \E t \in EmphasisTexts :
           editors = [id \in {"e1"} |->
                        [id |-> id, languageId |-> "markdown", text |-> t,
                         selections |-> {Selection(0, 0)}]]
    /\ window = none
    /\ settings = <<>>
    /\ rendered = [id \in {"e1"} |-> [k \in DecorationKinds |-> <<>>]]
    /\ activeEditor = none
    /\ linkProvider = TRUE
    /\ links = <<>>
    /\ linksBefore = <<>>
    /\ lastIndex = [r \in SharedRegexNames |-> 0]
    /\ last = NoRecompute
    /\ result = NoCall

EmphasisNext ==
    \/ ChangeActiveTextEditor
    \/ CallBold
    \/ CallItalic

EmphasisSpec == EmphasisInit /\ [][EmphasisNext]_vars

(***************************************************************************)
(* A scan loop, one evaluation of its condition at a time.  Every matcher  *)
(* scans with  while ((match = regex.exec(documentText)))  and nothing in  *)
(* a loop body writes lastIndex or leaves the loop; the loops of one call  *)
(* and of successive calls run one after the other.                        *)
(***************************************************************************)
\* the loop over the shared regex of name regex is between two evaluations
\* of its condition: its last exec found a match
Scanning(regex) ==
    /\ result.method = "exec"
    /\ result.regex = regex
    /\ result.value # <<>>

\* one evaluation of  (match = regex.exec(documentText)) : of the loop that
\* is running, or of a loop that is entered when none is running
Exec ==
    \E regex \in SharedRegexNames :
        /\ \A r \in SharedRegexNames \ {regex} : ~Scanning(r)
        /\ LET Step(match) ==
                   /\ lastIndex' = [lastIndex EXCEPT
                                       ![regex] = IF match = NoMatch THEN 0
                                                  ELSE match.end]
                   /\ result' = [method |-> "exec", regex |-> regex,
                                 hideFully |-> FALSE,
                                 documentText |-> getText,
                                 editor |-> activeEditor, threw |-> FALSE,
                                 value |-> IF match = NoMatch THEN <<>>
                                           ELSE <<match>>]
           IN Step(exec(RegexOf(regex), getText, lastIndex[regex]))
        /\ UNCHANGED <<editors, window, settings, rendered, activeEditor,
                       linkProvider, links, linksBefore, last>>

ScanInit == MatcherInit

ScanNext == Exec

\* a loop that has been entered goes on evaluating its condition
ScanSpec == ScanInit /\ [][ScanNext]_vars /\ WF_vars(Exec)

(***************************************************************************)
(* Properties.  They speak of the recompute of the event handled last      *)
(* (last), of the ranges the editors hold (rendered) and of the links the  *)
(* provider holds (links).                                                 *)
(***************************************************************************)
\* the editor the Decorator holds
Active == Editor(editors, activeEditor)

SeqRange(s) == {s[j] : j \in 1..Len(s)}

\* the ranges a decoration map holds for a kind, none when it has no entry
RangesOf(map, kind) ==
    IF TypeOfKind(map, kind) = {} THEN <<>>
    ELSE map[CHOOSE j \in TypeOfKind(map, kind) : TRUE].ranges

\* decoration d is among the ranges the last recompute computed for its kind
Produced(d) == d.range \in SeqRange(RangesOf(last.setDecorations, d.type))

\* a link entry with range r is in the list the last recompute published
Published(r) == \E l \in SeqRange(last.links) : l.range = r

\* some selection of ed and range r have a line in common
Touched(ed, r) ==
    \E sel \in ed.selections :
        (sel.start.line .. sel.end.line) \cap (r.start.line .. r.end.line) # {}

\* the offset of position pos in text t
OffsetOf(t, pos) == CHOOSE k \in 0..Len(t) : positionAt(t, k) = pos

\* the matches of the two code patterns in text t
CodeSpans(t) ==
    SeqRange(execLoop(BLOCK_CODE_REGEX, t, 0))
        \cup SeqRange(execLoop(INLINE_CODE_REGEX, t, 0))

\* range r of text t lies, offset by offset, within one match of CodeSpans(t)
WithinCodeSpan(t, r) ==
    \E c \in CodeSpans(t) :
        c.index <= OffsetOf(t, r.start) /\ OffsetOf(t, r.end) <= c.end

\* the decorations the code matchers give for the active editor
CodeDecorations ==
    SeqRange(codeDecorationsOf(Active, Active.text, settings, lastIndex))

\* the decorations the other matchers give for the active editor
OtherDecorations ==
    SeqRange(allDecorationsOf(
                 Active, Active.text, settings, lastIndex,
                 aliasedURIResultOf(Active, Active.text, settings,
                                    lastIndex).decorations,
                 referenceURIResultOf(Active, Active.text, settings,
                                      lastIndex).decorations))

\* the aliased links of the active editor's text, when they are enabled:
\* the range of each construct and the range of its link text
AliasedLinks ==
    IF ~get(settings, "aliasedURIs", FALSE) THEN {}
    ELSE {[parent |-> range(Active, m.index, m.end),
           range |-> range(Active, m.index + m.g[1],
                           m.index + m.g[1] + m.g[2])] :
             m \in SeqRange(execLoop(ALIASED_URI_REGEX, Active.text, 0))}

\* the reference links of the active editor's text, when they are enabled
ReferenceLinks ==
    IF ~get(settings, "referenceURIs", TRUE) THEN {}
    ELSE {[parent |-> range(Active, m.index, m.end),
           range |-> range(Active, m.index + m.g[1],
                           m.index + m.g[1] + m.g[2])] :
             m \in SeqRange(execLoop(REFERENCE_URI_REGEX, Active.text, 0))}

\* C1: after a recompute the editor holds, for every decoration kind,
\* exactly the ranges that recompute computed for the kind; a kind for which
\* it computed no range holds none
RenderedIsLastComputed ==
    last.ran =>
        \A k \in DecorationKinds :
            rendered[activeEditor][k] = RangesOf(last.setDecorations, k)

\* C5: a recompute that passes the guards calls setDecorations exactly once
\* for each of the eight decoration kinds
OneCallForEveryKind ==
    last.ran =>
        \A k \in DecorationKinds :
            Cardinality(TypeOfKind(last.setDecorations, k)) = 1

\* the settings the recompute reads, and the default it reads each with
ReadKeys == ConfigKeys \ {"hideAliasedURIs"}
DefaultOf(key) == key # "aliasedURIs"

\* the Decorator holds an editor whose document is markdown
ActiveIsMarkdown ==
    activeEditor # none /\ Active.languageId \in {"markdown", "md", "mdx"}

\* C9: a step that changes the text of the active markdown document runs a
\* recompute, and the recompute reads the new text
EditTriggersRecompute ==
    [][(/\ ActiveIsMarkdown
        /\ editors'[activeEditor].text # editors[activeEditor].text)
       => (last'.ran /\ last'.documentText = editors'[activeEditor].text)]_vars

\* C10: a step that changes the value the recompute reads for one of its
\* toggles runs a recompute
ToggleTriggersRecompute ==
    [][(/\ ActiveIsMarkdown
        /\ \E k \in ReadKeys : get(settings', k, DefaultOf(k))
                                   # get(settings, k, DefaultOf(k)))
       => last'.ran]_vars

\* C2: in every recompute, a construct of any matcher whose parent has a
\* line in common with a selection has none of its ranges among the ranges
\* computed for its kind and no link entry in the published list; a
\* construct no selection touches has its ranges again, unless it is a
\* non-code construct inside a code range
SelectedConstructsAreRevealed ==
    last.ran =>
        /\ \A d \in CodeDecorations :
               IF Touched(Active, d.parent) THEN ~Produced(d) ELSE Produced(d)
        /\ \A d \in OtherDecorations :
               IF Touched(Active, d.parent) THEN ~Produced(d)
               ELSE WithinCodeSpan(Active.text, d.parent) \/ Produced(d)
        /\ \A c \in AliasedLinks \cup ReferenceLinks :
               Touched(Active, c.parent) => ~Published(c.range)

\* a recompute in which a selection lies on a later line of a construct of
\* several lines, which is revealed, while another construct is decorated
SelectedConstructsAreRevealedWitness ==
    /\ last.ran
    /\ \E d \in CodeDecorations \cup OtherDecorations :
           /\ Touched(Active, d.parent)
           /\ \A sel \in Active.selections :
                  sel.start.line > d.parent.start.line
           /\ ~Produced(d)
    /\ \E d \in CodeDecorations \cup OtherDecorations :
           ~Touched(Active, d.parent) /\ Produced(d)

ClosingFenceEndsText(t) ==
    \E f \in BLOCK_CODE_REGEX.fences :
        /\ Len(t) >= 2 * Len(f) + 1
        /\ AtLineStart(t, Len(t) - Len(f))
        /\ Looking(t, Len(t) - Len(f), f)
        /\ \E i \in 0..(Len(t) - 2 * Len(f) - 1) :
               /\ AtLineStart(t, i)
               /\ Looking(t, i, f)
               /\ At(t, SkipClass(t, i + Len(f), WordChars)) = NL

\* C4: a fenced block whose closing fence is the last line of the text,
\* with no line break behind it, is detected: getCodeBlockRanges gives a
\* range for it, blockCode gives the two Hide spans of its fence lines, and
\* no heading or bold inside it is decorated
ClosingFenceAtEndIsDetected ==
    (last.ran /\ ClosingFenceEndsText(Active.text)) =>
        /\ Len(getCodeBlockRanges(Active, Active.text)) >= 1
        /\ Len(blockCode(Active, Active.text, lastIndex)) = 2
        /\ RangesOf(last.setDecorations, xxlTextDecorationType) = <<>>
        /\ RangesOf(last.setDecorations, defaultColorDecorationType) = <<>>

\* C6: in every recompute with referenceURIs enabled, a reference link that
\* no selection touches and that lies in no code range has a link entry,
\* whose range is the range of the link text, in the published list
ReferenceLinksArePublished ==
    last.ran =>
        \A c \in ReferenceLinks :
            (/\ ~Touched(Active, c.parent)
             /\ ~WithinCodeSpan(Active.text, c.parent))
                => Published(c.range)

\* C7, for the aliased links: in every recompute the link entry of a link
\* is published if and only if the URIStyle decoration of the link is
\* among the ranges computed
LinkEntryIffURIStyle ==
    last.ran =>
        \A c \in AliasedLinks :
            Published(c.range)
                <=> c.range \in SeqRange(RangesOf(last.setDecorations,
                                                  URIDecorationType))

\* C8: in every recompute all Hide spans of the inline-code and fenced-code
\* delimiters are among the ranges computed, whatever is selected
CodeDelimitersIgnoreSelection ==
    last.ran => \A d \in CodeDecorations : Produced(d)

\* C8 as amended: in every recompute a Hide span of an inline-code or
\* fenced-code delimiter is among the ranges computed if and only if no
\* selection touches a line of its parent; lying inside another code range
\* does not drop it
CodeDelimitersFollowSelectionOnly ==
    last.ran =>
        \A d \in CodeDecorations : Produced(d) <=> ~Touched(Active, d.parent)

\* a recompute with a selection on a fenced block, whose fences are
\* revealed, while the inline code within the block, which the selection
\* does not touch, keeps its backticks hidden
CodeDelimitersFollowSelectionOnlyWitness ==
    /\ last.ran
    /\ \E d \in CodeDecorations : Touched(Active, d.parent) /\ ~Produced(d)
    /\ \E d \in CodeDecorations :
           /\ ~Touched(Active, d.parent)
           /\ \E c \in SeqRange(getCodeBlockRanges(Active, Active.text)) :
                  c # d.parent /\ contains(c, d.parent)
           /\ Produced(d)

\* every shared regex as a fresh regex object has it: lastIndex 0
FreshIndex == [r \in SharedRegexNames |-> 0]

\* C11: what a recompute computes (the calls it makes, the ranges of each
\* kind, the links) is the function of the text, the selections and the
\* configuration that a Decorator with fresh regexes computes, whatever
\* recomputes and direct calls of matchers ran before it
RecomputeIsFunctionOfSnapshot ==
    last.ran =>
        last = updateDecorations(Active, linkProvider, settings, FreshIndex)

\* a recompute on editor e1 that found something to decorate, after a
\* recompute on editor e2 and a direct call of bold on the text of e2
RecomputeIsFunctionOfSnapshotWitness ==
    /\ last.ran
    /\ activeEditor = "e1"
    /\ last.setDecorations # <<>>
    /\ result.method = "bold"
    /\ result.value # <<>>
    /\ result.documentText = editors["e2"].text
    /\ result.documentText # last.documentText
    /\ rendered["e2"][xxlTextDecorationType] # <<>>

\* the value a guarded method returns when it does nothing
EmptyValueOf(method) ==
    IF method \in {"aliasedURI", "referenceURI"}
    THEN [decorations |-> <<>>, linkData |-> <<>>]
    ELSE <<>>

\* C12: while the Decorator has no active editor, no recompute runs, every
\* public method called directly returns without throwing and returns an
\* empty result, and nothing is rendered or published
NoEditorCallsAreNoOps ==
    activeEditor = none =>
        /\ ~last.ran
        /\ ~result.threw
        /\ result.value = EmptyValueOf(result.method)
        /\ \A id \in DOMAIN rendered : \A k \in DecorationKinds :
               rendered[id][k] = <<>>
        /\ links = <<>>

\* the spans (decorations, or pairs of range and parent) the method called
\* last returned
ResultSpans ==
    IF result.threw \/ result.method \in {"", "getCodeBlockRanges"} THEN {}
    ELSE IF result.method \in {"aliasedURI", "referenceURI"}
         THEN SeqRange(result.value.decorations)
         ELSE SeqRange(result.value)

\* pos is the position of an offset of text t
IsPositionOf(t, pos) == \E k \in 0..Len(t) : positionAt(t, k) = pos

\* C13: in every span a matcher produces, range and parent have their start
\* at or before their end, their four endpoints are positions of offsets of
\* the text, and parent contains range
SpansAreWellFormed ==
    \A d \in ResultSpans :
        /\ isBeforeOrEqual(d.range.start, d.range.end)
        /\ isBeforeOrEqual(d.parent.start, d.parent.end)
        /\ \A pos \in {d.range.start, d.range.end, d.parent.start,
                       d.parent.end} :
               IsPositionOf(result.documentText, pos)
        /\ isBeforeOrEqual(d.parent.start, d.range.start)
        /\ isBeforeOrEqual(d.range.end, d.parent.end)

\* bold returned a span that ends where its parent ends and starts later,
\* and a span that is its own parent
SpansAreWellFormedWitness ==
    /\ result.method = "bold"
    /\ \E d \in ResultSpans :
           /\ d.range.end = d.parent.end
           /\ d.range.start # d.parent.start
           /\ d.range.start # d.range.end
    /\ \E d \in ResultSpans : d.range = d.parent /\ d.range.start # d.range.end

\* the run of one matcher in a recompute, when its setting enables it: the
\* regex whose matches are its constructs, and the decorations it gives
Run(key, defaultValue, regex, spans) ==
    IF get(settings, key, defaultValue)
    THEN {[regex |-> regex, spans |-> spans]}
    ELSE {}

\* the runs of the matchers in a recompute on the active editor
MatcherRuns ==
    Run("bold", TRUE, "BOLD", bold(Active, Active.text, lastIndex))
    \cup Run("italic", TRUE, "ITALIC", italic(Active, Active.text, lastIndex))
    \cup Run("strikethrough", TRUE, "STRIKETHROUGH",
             strikethrough(Active, Active.text, lastIndex))
    \cup Run("inlineCode", TRUE, "INLINE_CODE",
             inlineCode(Active, Active.text, lastIndex))
    \cup Run("blockCode", TRUE, "BLOCK_CODE",
             blockCode(Active, Active.text, lastIndex))
    \cup Run("simpleURI", TRUE, "SIMPLE_URI",
             simpleURI(Active, Active.text, lastIndex))
    \cup Run("headings", TRUE, "ALL_HEADINGS",
             headings(Active, Active.text, lastIndex))
    \cup Run("horizontalLine", TRUE, "HORIZONTAL_LINE",
             horizontalLine(Active, Active.text, lastIndex))
    \cup Run("aliasedURIs", FALSE, "ALIASED_URI",
             aliasedURI(Active, Active.text, lastIndex).decorations)
    \cup Run("referenceURIs", TRUE, "REFERENCE_URI",
             referenceURIResultOf(Active, Active.text, settings,
                                  lastIndex).decorations)

\* the constructs of a recompute: for each match of each matcher, the spans
\* of the matcher that lie in the match
Constructs ==
    UNION {{[match |-> range(Active, m.index, m.end),
             spans |-> {d \in SeqRange(run.spans) :
                           contains(range(Active, m.index, m.end), d.range)}] :
               m \in SeqRange(execLoop(RegexOf(run.regex), Active.text, 0))} :
           run \in MatcherRuns}

\* C14: in every recompute all spans of one construct carry the same parent,
\* and they are either all among the computed ranges or all absent from them
ConstructsAreWholeOrAbsent ==
    last.ran =>
        \A c \in Constructs :
            /\ \A d, e \in c.spans : d.parent = e.parent
            /\ \/ \A d \in c.spans : Produced(d)
               \/ \A d \in c.spans : ~Produced(d)

\* a recompute with a construct of three spans or more that is decorated
\* and another that is not
ConstructsAreWholeOrAbsentWitness ==
    /\ last.ran
    /\ \E c \in Constructs :
           Cardinality(c.spans) >= 3 /\ \A d \in c.spans : Produced(d)
    /\ \E c \in Constructs :
           Cardinality(c.spans) >= 3 /\ \A d \in c.spans : ~Produced(d)

\* the editor that was the active one in the direct call made last
Callee == Editor(editors, result.editor)

\* the offsets at which the lines of text t start
LineStarts(t) == {k \in 0..Len(t) : AtLineStart(t, k)}

\* the number of hashes that follow the indentation of the line at offset k
HashRun(t, k) ==
    SkipClass(t, SkipClass(t, k, Blank), {"#"}) - SkipClass(t, k, Blank)

\* the line at offset k is blanks, 1 to 6 hashes, and then a blank or its end
IsHeadingLine(t, k) ==
    LET e == SkipClass(t, SkipClass(t, k, Blank), {"#"}) IN
    /\ HashRun(t, k) \in 1..6
    /\ At(t, e) \in Blank \/ AtLineEnd(t, e)

\* the range of the whole line that starts at offset k
LineRange(ed, k) == range(ed, k, SkipTo(ed.text, k, {NL}))

\* how many of the spans of sequence v have the given type and range
CountSpans(v, type, r) ==
    Cardinality({j \in 1..Len(v) : v[j].type = type /\ v[j].range = r})

\* the size decoration of a heading with n hashes, "" when it has none
SizeOf(n) ==
    CASE n = 1 -> xxlTextDecorationType
      [] n = 2 -> xlTextDecorationType
      [] n = 3 -> lTextDecorationType
      [] OTHER -> ""

\* C15: headings gives for every heading line with n hashes one DefaultColor
\* span over the line, one XXL span over it when n = 1, one XL span when
\* n = 2, one L span when n = 3 and no size span when n is 4 to 6; a line
\* that is not a heading line (seven hashes, a hash followed by another
\* character) has no span at all
HeadingLevelsAreMapped ==
    (result.method = "headings" /\ result.editor # none) =>
        \A k \in LineStarts(result.documentText) :
            LET r == LineRange(Callee, k)
                n == HashRun(result.documentText, k)
            IN IF IsHeadingLine(result.documentText, k)
               THEN /\ CountSpans(result.value, defaultColorDecorationType,
                                  r) = 1
                    /\ \A size \in {xxlTextDecorationType,
                                    xlTextDecorationType,
                                    lTextDecorationType} :
                           /\ CountSpans(result.value, size, r)
                                  = IF size = SizeOf(n) THEN 1 ELSE 0
                           /\ \A d \in ResultSpans :
                                  (d.type = size
                                   /\ d.parent.start.line = r.start.line)
                                      => d.range = r
               ELSE \A d \in ResultSpans :
                        /\ d.range.start.line # r.start.line
                        /\ d.parent.start.line # r.start.line

\* headings was called on a text with a heading of level 6, a line of seven
\* hashes and a hash followed by a digit
HeadingLevelsAreMappedWitness ==
    /\ result.method = "headings"
    /\ result.editor # none
    /\ \E k \in LineStarts(result.documentText) :
           IsHeadingLine(result.documentText, k)
               /\ HashRun(result.documentText, k) = 6
    /\ \E k \in LineStarts(result.documentText) :
           HashRun(result.documentText, k) = 7
    /\ \E k \in LineStarts(result.documentText) :
           /\ HashRun(result.documentText, k) = 1
           /\ ~IsHeadingLine(result.documentText, k)

\* the offset behind the hashes of the heading line at offset k and the one
\* blank that follows them, if one does
HashRunEnd(t, k) ==
    LET e == SkipClass(t, SkipClass(t, k, Blank), {"#"}) IN
    IF At(t, e) \in Blank THEN e + 1 ELSE e

\* the Hide spans headings returned for the line at offset k
HideSpansOfLine(k) ==
    {d \in ResultSpans :
        /\ d.type = hideDecorationType
        /\ d.parent.start.line = LineRange(Callee, k).start.line}

RealHeading ==
    <<"#", " ", "R", "e", "a", "l", " ", "h", "e", "a", "d", "i", "n", "g">>

\* C16 as stated: for every heading line, indented or not, headings gives one
\* Hide span, which covers the run of hashes and the one blank that follows
\* it, and nothing else
HeadingHideIsHashRunOnly ==
    (result.method = "headings" /\ result.editor # none) =>
        \A k \in LineStarts(result.documentText) :
            IsHeadingLine(result.documentText, k) =>
                HideSpansOfLine(k) =
                    {[type |-> hideDecorationType,
                      parent |-> LineRange(Callee, k),
                      range |-> range(Callee,
                                      SkipClass(result.documentText, k, Blank),
                                      HashRunEnd(result.documentText, k))]}

\* C16 amended: the one Hide span of a heading line starts at the start of
\* the line: it covers the indentation, the run of hashes and the one blank
\* that follows it, and nothing else; for the text "# Real heading" headings
\* gives Hide over the 2 characters "# ", DefaultColor over the line and XXL
\* over the line
HeadingHideIsPrefixOfLine ==
    (result.method = "headings" /\ result.editor # none) =>
        /\ \A k \in LineStarts(result.documentText) :
               IsHeadingLine(result.documentText, k) =>
                   HideSpansOfLine(k) =
                       {[type |-> hideDecorationType,
                         parent |-> LineRange(Callee, k),
                         range |-> range(Callee, k,
                                         HashRunEnd(result.documentText, k))]}
        /\ result.documentText = RealHeading =>
               LET line == range(Callee, 0, 14) IN
               result.value =
                   << [range |-> range(Callee, 0, 2), parent |-> line,
                       type |-> hideDecorationType],
                      [range |-> line, parent |-> line,
                       type |-> defaultColorDecorationType],
                      [range |-> line, parent |-> line,
                       type |-> xxlTextDecorationType] >>

\* headings was called on a text with an indented heading, whose Hide span
\* starts before its hashes, and with a bare hash
HeadingHideIsPrefixOfLineWitness ==
    /\ result.method = "headings"
    /\ result.editor # none
    /\ \E k \in LineStarts(result.documentText) :
           /\ IsHeadingLine(result.documentText, k)
           /\ SkipClass(result.documentText, k, Blank) > k
           /\ HideSpansOfLine(k) # {}
    /\ \E k \in LineStarts(result.documentText) :
           /\ IsHeadingLine(result.documentText, k)
           /\ HashRunEnd(result.documentText, k) = k + 1

\* the matches of bold in text t that lie within an inline code span
BoldInCode(t) ==
    {m \in SeqRange(execLoop(BOLD_REGEX, t, 0)) :
        \E c \in SeqRange(execLoop(INLINE_CODE_REGEX, t, 0)) :
            c.index <= m.index /\ m.end <= c.end}

\* the matches of bold in text t that overlap no code span
BoldOutsideCode(t) ==
    {m \in SeqRange(execLoop(BOLD_REGEX, t, 0)) :
        \A c \in CodeSpans(t) : c.end <= m.index \/ m.end <= c.index}

\* text t holds two bold constructs, one in inline code and one outside code
OneBoldInCodeOneOutside(t) ==
    /\ Len(execLoop(BOLD_REGEX, t, 0)) = 2
    /\ Cardinality(BoldInCode(t)) = 1
    /\ Cardinality(BoldOutsideCode(t)) = 1

\* what bold returned, filtered with isInsideCodeBlock against
\* getCodeBlockRanges as the tests of the repository filter it
FilteredBold ==
    LET InCode(codeBlockRanges) ==
            LET Keep(d) == ~isInsideCodeBlock(d.parent, codeBlockRanges) IN
            SelectSeq(result.value, Keep)
    IN InCode(getCodeBlockRanges(Callee, result.documentText))

BoldAndItalic ==
    <<"*", "*", "b", "o", "l", "d", "*", "*", " ", "a", "n", "d", " ",
      "_", "i", "t", "a", "l", "i", "c", "_">>

\* the decorations of an emphasis construct at offsets [from, to) whose
\* markers are n characters long, in the order the matcher gives them when
\* the construct is the only one
EmphasisSpans(ed, from, to, n) ==
    << [range |-> range(ed, from, from + n), parent |-> range(ed, from, to),
        type |-> hideDecorationType],
       [range |-> range(ed, to - n, to), parent |-> range(ed, from, to),
        type |-> hideDecorationType],
       [range |-> range(ed, from, to), parent |-> range(ed, from, to),
        type |-> defaultColorDecorationType] >>

RefSpan(from, to, m, type) ==
    [range |-> range(Callee, from, to),
     parent |-> range(Callee, m.index, m.end), type |-> type]

\* the spans C19 names for reference link match m: the link text is between
\* the first bracket pair, the tail is all that follows the bracket that
\* closes the link text (the whitespace, if any, and the second bracket group)
ReferenceSpans(m, hideFully) ==
    LET textStart == m.index + 1
        textEnd == textStart + m.g[2]
    IN {RefSpan(m.index, textStart, m, hideDecorationType),
        RefSpan(textEnd, textEnd + 1, m, hideDecorationType),
        RefSpan(textStart, textEnd, m, URIDecorationType)}
       \cup (IF hideFully
             THEN {RefSpan(textEnd + 1, m.end, m, hideDecorationType)}
             ELSE {RefSpan(textEnd + 1, m.end, m, defaultColorDecorationType)}
                  \cup (IF m.g[4] = 0
                        THEN {RefSpan(textStart, textEnd, m,
                                      spaceAfterDecorationType)}
                        ELSE {}))

\* C19: the decorations referenceURI gives are, for every match and no
\* other, Hide over the opening bracket, Hide over the bracket that closes
\* the link text and URIStyle over the link text; in fully-hidden mode Hide
\* over the tail and no SpaceAfter; in partial mode DefaultColor over the
\* tail, no Hide over it, and SpaceAfter over the link text exactly when no
\* whitespace separates the bracket groups; each once
ReferenceSpansFollowMode ==
    (result.method = "referenceURI" /\ result.editor # none) =>
        LET ms == SeqRange(execLoop(REFERENCE_URI_REGEX,
                                    result.documentText, 0))
            expected == UNION {ReferenceSpans(m, result.hideFully) : m \in ms}
        IN /\ ResultSpans = expected
           /\ Len(result.value.decorations) = Cardinality(expected)
           /\ result.hideFully =>
                  \A d \in ResultSpans : d.type # spaceAfterDecorationType

\* referenceURI was called in partial mode on a text with a link without and
\* a link with whitespace between the bracket groups: one SpaceAfter span
ReferenceSpansFollowModeWitness ==
    /\ result.method = "referenceURI"
    /\ result.editor # none
    /\ ~result.hideFully
    /\ Cardinality({d \in ResultSpans :
                       d.type = spaceAfterDecorationType}) = 1
    /\ Cardinality({d \in ResultSpans :
                       d.type = defaultColorDecorationType}) = 2

\* the matches of the aliased link pattern in the text of the active editor
AliasedMatches == SeqRange(execLoop(ALIASED_URI_REGEX, Active.text, 0))

\* the link entries published last whose range is r
PublishedAt(r) == {j \in 1..Len(last.links) : last.links[j].range = r}

\* C20: a recompute with aliasedURIs false (the default) publishes no link
\* entry and computes no URIStyle range for an aliased link; a recompute with
\* aliasedURIs true gives, for each aliased link whose construct no selection
\* touches and no code range contains, exactly one link entry, with the range
\* of the link text and the raw target, and Hide over the opening bracket,
\* Hide from the closing bracket through the closing parenthesis and URIStyle
\* over the link text
AliasedLinksFollowFlag ==
    last.ran =>
        \A m \in AliasedMatches :
            LET parent == range(Active, m.index, m.end)
                textStart == m.index + 1
                textEnd == textStart + m.g[2]
                linkRange == range(Active, textStart, textEnd)
                target == Sub(Active.text, textEnd + 2, m.end - 1)
            IN IF ~get(settings, "aliasedURIs", FALSE)
               THEN /\ last.links = <<>>
                    /\ ~Produced([range |-> linkRange,
                                  type |-> URIDecorationType])
               ELSE (/\ ~Touched(Active, parent)
                     /\ ~isInsideCodeBlock(
                            parent, getCodeBlockRanges(Active, Active.text)))
                    => /\ Cardinality(PublishedAt(linkRange)) = 1
                       /\ \A j \in PublishedAt(linkRange) :
                              last.links[j].target = target
                       /\ Produced([range |-> range(Active, m.index,
                                                    textStart),
                                    type |-> hideDecorationType])
                       /\ Produced([range |-> range(Active, textEnd, m.end),
                                    type |-> hideDecorationType])
                       /\ Produced([range |-> linkRange,
                                    type |-> URIDecorationType])

\* the link list the recompute on the active editor filters out of what the
\* two link matchers return (decorator.ts 380-381)
NewlyFilteredLinks ==
    filteredLinksOf(Active,
                    aliasedURIResultOf(Active, Active.text, settings,
                                       lastIndex).linkData
                        \o referenceURIResultOf(Active, Active.text, settings,
                                                lastIndex).linkData,
                    getCodeBlockRanges(Active, Active.text))

\* C21: every recompute that passes the guards while a link provider is
\* attached replaces the provider's link list with the newly filtered list
\* (nothing of the old list stays) and fires the links-changed notification
\* exactly once, also when the new list equals the one it replaces
LinksAreReplacedAndNotified ==
    (last.ran /\ linkProvider) =>
        /\ last.published
        /\ last.links = NewlyFilteredLinks
        /\ links = last.links
        /\ last.triggerUpdate = 1

\* a recompute that published a list with a link in it, equal to the list
\* the provider held before
LinksAreReplacedAndNotifiedWitness ==
    /\ last.ran
    /\ linkProvider
    /\ links # <<>>
    /\ linksBefore = links
    /\ last.triggerUpdate = 1

\* the code ranges the filter of the recompute on the active editor uses
CodeBlockRanges == getCodeBlockRanges(Active, Active.text)

\* C22: in every recompute, a span of the inline-code or the fenced-code
\* matcher is never dropped by the code-block exclusion filter: although the
\* parent of every such span lies within a code range (its own, and for
\* nested code another one too), the span is among the ranges computed
\* unless a selection touches its parent
CodeSpansAreExemptFromCodeFilter ==
    last.ran =>
        \A d \in CodeDecorations :
            /\ isInsideCodeBlock(d.parent, CodeBlockRanges)
            /\ ~Produced(d) => isLineOfRangeSelected(Active, d.parent)

\* a recompute on a text with inline code inside a fenced block, with the
\* cursor on neither: the Hide spans of the inline code, whose parent lies
\* within the range of the block, and those of the fences are all computed
CodeSpansAreExemptFromCodeFilterWitness ==
    /\ last.ran
    /\ \E d \in CodeDecorations :
           /\ \E c \in SeqRange(CodeBlockRanges) :
                  c # d.parent /\ contains(c, d.parent)
           /\ Produced(d)
    /\ \A d \in CodeDecorations :
           ~isLineOfRangeSelected(Active, d.parent) /\ Produced(d)
    /\ Cardinality(CodeDecorations) = 4

\* C23: whenever a handler or a matcher is entered (after any sequence of
\* matcher calls and recomputes) the lastIndex of every shared regex is 0;
\* the scan of each editor's text entered with it finds the matches a scan
\* from offset 0 finds, none skipped and none twice, and ends with lastIndex
\* 0 again, so that a second loop over the same regex in the same call also
\* starts at 0
ScansStartAtZero ==
    \A r \in SharedRegexNames :
        /\ lastIndex[r] = 0
        /\ \A id \in DOMAIN editors :
               /\ execLoop(RegexOf(r), editors[id].text, lastIndex[r])
                      = execLoop(RegexOf(r), editors[id].text, 0)
               /\ lastIndexAfterLoop(RegexOf(r), editors[id].text,
                                     lastIndex[r]) = 0

\* after a recompute that decorated a text and a direct call of
\* getFullMatchRanges on a text of two headings and more, which found them
ScansStartAtZeroWitness ==
    /\ last.ran
    /\ last.setDecorations # <<>>
    /\ result.method = "getFullMatchRanges"
    /\ result.editor # none
    /\ Len(result.value) >= 2
    /\ \A r \in SharedRegexNames : lastIndex[r] = 0

\* C24: every scan loop terminates.  Each exec that matches consumes at
\* least one character and leaves lastIndex, within the text, beyond where
\* the exec started; and a loop that has found a match comes to the exec
\* that fails and ends it
ScanLoopsTerminate ==
    /\ [][\A r \in SharedRegexNames :
              Scanning(r)' =>
                  /\ result'.value[1].end > result'.value[1].index
                  /\ result'.value[1].index >= lastIndex[r]
                  /\ lastIndex'[r] = result'.value[1].end
                  /\ lastIndex'[r] > lastIndex[r]
                  /\ lastIndex'[r] <= Len(result'.documentText)]_vars
    /\ (\E r \in SharedRegexNames : Scanning(r))
           ~> (\A r \in SharedRegexNames : ~Scanning(r))

\* the exec that fails and ends a loop over a text in which the regex of the
\* loop has two matches or more
ScanLoopsTerminateWitness ==
    /\ result.method = "exec"
    /\ result.value = <<>>
    /\ lastIndex[result.regex] = 0
    /\ Len(execLoop(RegexOf(result.regex), result.documentText, 0)) >= 2

\* the line of text t that starts at offset k holds blanks only
IsBlankLine(t, k) == AtLineStart(t, k) /\ AtLineEnd(t, SkipClass(t, k, Blank))

\* the line that starts at offset k is blanks, three or more of one of the
\* characters - * _ and blanks again
IsRuleLine(t, k) ==
    LET l == SkipClass(t, k, Blank)
        r == SkipClass(t, l, {At(t, l)})
    IN /\ At(t, l) \in {"-", "*", "_"}
       /\ r - l >= 3
       /\ AtLineEnd(t, SkipClass(t, r, Blank))

\* the line that starts at offset k has a line before it and a line behind
\* it, and both are blank
IsBetweenBlankLines(t, k) ==
    /\ k > 0
    /\ IsBlankLine(t, LineStartOf(t, k - 1))
    /\ SkipTo(t, k, {NL}) < Len(t)
    /\ IsBlankLine(t, SkipTo(t, k, {NL}) + 1)

\* how many spans of sequence v are HorizontalLine spans whose range and
\* parent are both r
CountRules(v, r) ==
    Cardinality({j \in 1..Len(v) :
                    /\ v[j].type = horizontalLineDecorationType
                    /\ v[j].range = r
                    /\ v[j].parent = r})

\* C25: horizontalLine gives, for every rule line that has a blank line
\* before it and a blank line behind it, exactly one HorizontalLine span
\* whose range and parent are that line, from its first to its last
\* character
RuleLinesAreDecorated ==
    (result.method = "horizontalLine" /\ result.editor # none) =>
        \A k \in LineStarts(result.documentText) :
            (/\ IsRuleLine(result.documentText, k)
             /\ IsBetweenBlankLines(result.documentText, k))
                => CountRules(result.value, LineRange(Callee, k)) = 1

\* the offsets of text t that the Hide spans of sequence v cover
HiddenOffsets(t, v) ==
    {k \in 0..(Len(t) - 1) :
        \E j \in 1..Len(v) :
            /\ v[j].type = hideDecorationType
            /\ OffsetOf(t, v[j].range.start) <= k
            /\ k < OffsetOf(t, v[j].range.end)}

\* what the other of the two emphasis matchers gives for the text of the
\* call made last
OtherEmphasis ==
    IF result.method = "bold"
    THEN italic(Callee, result.documentText, lastIndex)
    ELSE bold(Callee, result.documentText, lastIndex)

\* C26: no offset of a text is covered both by a Hide span of bold and by a
\* Hide span of italic; for the text **x** italic gives no span
EmphasisMarkersAreDisjoint ==
    (result.method \in {"bold", "italic"} /\ result.editor # none) =>
        /\ HiddenOffsets(result.documentText, result.value)
               \cap HiddenOffsets(result.documentText, OtherEmphasis) = {}
        /\ (/\ result.method = "italic"
            /\ result.documentText = <<"*", "*", "x", "*", "*">>)
               => result.value = <<>>

\* italic called on a text in which it finds a construct and bold finds
\* another
EmphasisMarkersAreDisjointWitness ==
    /\ result.method = "italic"
    /\ result.editor # none
    /\ HiddenOffsets(result.documentText, result.value) # {}
    /\ HiddenOffsets(result.documentText, OtherEmphasis) # {}

\* a document with text t, as the link matchers read it
DocumentOf(t) ==
    [id |-> "document", languageId |-> "markdown", text |-> t,
     selections |-> {}]

\* the link entries the two link matchers compute from text t
LinksOfText(t) ==
    SeqRange(aliasedURI(DocumentOf(t), t, FreshIndex).linkData)
        \cup SeqRange(referenceURI(DocumentOf(t), t, TRUE,
                                   FreshIndex).linkData)

\* C27: the links provideDocumentLinks returns for a document are links
\* computed from the text of that document, after any sequence of editor
\* switches and whether or not the document is the one of the active editor
ProvidedLinksAreOfTheDocument ==
    result.method = "provideDocumentLinks" =>
        \A l \in SeqRange(result.value) : l \in LinksOfText(result.documentText)

\* the step changes the selections of some editor
SelectionsChange ==
    \E e \in DOMAIN editors : editors'[e].selections # editors[e].selections

\* C28: setActiveEditor(undefined), called when the window is left without
\* an active editor, changes nothing: activeEditor, the ranges the editors
\* hold, the link list and the regexes stay, no recompute runs, no
\* setDecorations call and no notification is made; a later change of
\* selections, with the window still without an active editor, recomputes on
\* the editor that was active before and applies the ranges to it
SettingNoEditorChangesNothing ==
    [][/\ (window # none /\ window' = none) =>
              /\ UNCHANGED <<activeEditor, rendered, links, lastIndex>>
              /\ ~last'.ran
              /\ last'.setDecorations = <<>>
              /\ last'.triggerUpdate = 0
       /\ (/\ window = none
           /\ window' = none
           /\ ActiveIsMarkdown
           /\ SelectionsChange) =>
              /\ activeEditor' = activeEditor
              /\ last'.ran
              /\ last'.documentText = editors'[activeEditor].text
              /\ rendered' = [rendered EXCEPT
                                 ![activeEditor] =
                                     Render(@, last'.setDecorations)]]_vars

\* the window has no active editor and the event handled last recomputed
\* the decorations of the editor the Decorator still holds, which has some
SettingNoEditorChangesNothingWitness ==
    /\ window = none
    /\ ActiveIsMarkdown
    /\ last.ran
    /\ last.setDecorations # <<>>
    /\ \E k \in DecorationKinds : rendered[activeEditor][k] # <<>>

\* the Hide spans of the fence lines the recompute on the active editor gets
\* from blockCode
FenceDecorations ==
    IF get(settings, "blockCode", TRUE)
    THEN SeqRange(blockCode(Active, Active.text, lastIndex))
    ELSE {}

\* the lines of the fenced block with parent range r, from its opening fence
\* line to its closing fence line; r ends behind the line break of the
\* closing fence
FenceLines(t, r) ==
    r.start.line .. positionAt(t, OffsetOf(t, r.end) - 1).line

\* C29: in every recompute the Hide span of a fence line is left out of the
\* ranges computed only if a selection touches a line of the block, from
\* its opening fence line to its closing fence line; a cursor on the line
\* behind the closing fence does not reveal the fences
FencesAreRevealedWithinBlockOnly ==
    last.ran =>
        \A d \in FenceDecorations :
            ~Produced(d) =>
                \E sel \in Active.selections :
                    (sel.start.line .. sel.end.line)
                        \cap FenceLines(Active.text, d.parent) # {}

\* C30: the code-block exclusion depends on the text only.  In every
\* recompute, whatever the selections are and whatever the inlineCode and
\* blockCode toggles are, the code ranges the filter uses are the ranges of
\* the matches of the two code patterns in the text; no decoration of a
\* non-code matcher whose parent lies within such a match is among the
\* ranges computed, and no link entry whose range lies within one is
\* published
CodeExclusionDependsOnTextOnly ==
    last.ran =>
        /\ SeqRange(CodeBlockRanges)
               = {range(Active, c.index, c.end) : c \in CodeSpans(Active.text)}
        /\ \A d \in OtherDecorations :
               WithinCodeSpan(Active.text, d.parent) => ~Produced(d)
        /\ \A c \in AliasedLinks \cup ReferenceLinks :
               WithinCodeSpan(Active.text, c.range) => ~Published(c.range)

\* a recompute with a selection on the opening fence of a block, which
\* reveals the fences, and on no other line: the heading inside the block,
\* which the selection does not touch, stays undecorated
CodeExclusionDependsOnTextOnlyWitness ==
    /\ last.ran
    /\ \E f \in FenceDecorations :
           /\ Touched(Active, f.parent)
           /\ ~Produced(f)
           /\ \E d \in OtherDecorations :
                  /\ d.type = xxlTextDecorationType
                  /\ contains(f.parent, d.parent)
                  /\ ~Touched(Active, d.parent)
                  /\ ~Produced(d)

=============================================================================
